---------------------------- MODULE Spec2Model ----------------------------
(***************************************************************************)
(* Model of the email-provider-resend operator: the Email reconciler and   *)
(* the Resend delivery webhook, the ContactGroupMembership reconciler and  *)
(* the provider adapter it drives, and the deletion guards (finalizers) of *)
(* ContactGroup, Contact and ContactGroupMembership.                       *)
(*                                                                         *)
(* The module holds these specifications over one set of variables:        *)
(*   SpecEmail       Email reconcile passes, provider sends, webhook       *)
(*   SpecMembership  membership create / update against the provider       *)
(*   SpecCreate      the idempotent create operations applied repeatedly   *)
(*   SpecCascade     deletion guards and the cascading deletion protocol   *)
(*   SpecGuard       membership deletion awaiting the provider's           *)
(*                   confirmation                                          *)
(*   SpecWebhook     the delivery and the contact-lifecycle handlers       *)
(*   SpecRedelivery  a delivery event racing the Email reconciler          *)
(*   SpecReceiver    Webhook.ServeHTTP in front of the two handlers        *)
(*   SpecCondition   delivery events of every allowed type                 *)
(*   SpecAggregate   the membership controller that aggregates providers   *)
(*   SpecStatus      status writes of the Contact, ContactGroup and        *)
(*                   membership reconcilers under spec edits               *)
(*   SpecConflict    concurrent writers of one Contact's status            *)
(*   SpecWrites      status writes per pass, Loops reconciler included     *)
(*   SpecRequeue     how a pass ends when a provider create call fails     *)
(*   SpecMarker      the UpdateRequested marker, with passes kept running  *)
(*   SpecConverge    spec edits with passes that succeed in the end        *)
(*   SpecRemoval     ContactGroupMembershipRemoval passes                  *)
(*   SpecNamespace   deletion guards over references into other namespaces *)
(*   SpecInterleave  the Email reconciler and the delivery webhook writing *)
(*                   one Email from the objects they read                  *)
(*   SpecPending     contact-lifecycle events over a pending update        *)
(*   SpecFinalizerFirst  the guarded controllers over new objects          *)
(*   SpecDeleting    new objects whose deletion is requested early         *)
(*   SpecTermination membership deletion with guard passes kept retried    *)
(*   SpecNewsletter  the newsletter subscription of the Loops reconciler   *)
(* Each specification leaves the variables of the others unchanged.        *)
(***************************************************************************)
EXTENDS Naturals, Integers, Sequences, FiniteSets, TLC

VARIABLES
    emails,        \* store: Email objects (uid, name, status.providerID, Delivered condition)
    emailPass,     \* per Email: how its most recent sending reconcile pass ended
    sendCalls,     \* per Email: the provider SendEmail calls issued for it, in order
    resend,        \* the provider: idempotency-key table and accepted messages
    k8sEvents,     \* per Email: number of observability Events created by the webhook
    webhooks,      \* number of delivery webhook requests that found their Email
    contacts,      \* store: Contact objects
    groups,        \* store: ContactGroup objects
    cgms,          \* store: ContactGroupMembership objects
    cgmrs,         \* store: ContactGroupMembershipRemoval objects
    audience,      \* the provider: contacts held in audiences, and the next id it hands out
    resendGroups,  \* the provider: audiences that exist
    loops,         \* the Loops provider: contacts by userId, and the next id it hands out
    createLog,     \* per resource identity: the results of the idempotent create invocations
    inflight,      \* per writer: the object it read and has not yet written back
    cgmrReady,     \* per ContactGroupMembershipRemoval: its Ready condition is True
    lastOp         \* the operation performed by the last step and its outcome

emailVars == <<emails, emailPass, sendCalls, resend, k8sEvents, webhooks>>

clusterVars == <<contacts, groups, cgms, cgmrs>>

providerVars == <<audience, resendGroups, loops>>

vars == <<emails, emailPass, sendCalls, resend, k8sEvents, webhooks,
          contacts, groups, cgms, cgmrs, audience, resendGroups, loops,
          createLog, inflight, cgmrReady, lastOp>>

(***************************************************************************)
(* Bounds                                                                  *)
(***************************************************************************)
MaxSends == 3      \* provider send calls issued, over all Emails
MaxWebhooks == 2   \* delivery webhook requests that found their Email
MaxCreates == 2    \* entities a provider creates
MaxInvocations == 2 \* successful idempotent-create invocations logged per identity
MaxGeneration == 2 \* metadata.generation of a Contact

(***************************************************************************)
(* Email: identities                                                       *)
(***************************************************************************)
EmailIds == {"e1", "e2"}

\* metadata.uid of each Email object: unique and immutable
EmailUID(e) == IF e = "e1" THEN "uid-1" ELSE "uid-2"

\* metadata.name: the two Emails live in different namespaces and share a name
EmailName(e) == "welcome"

EmailNames == {EmailName(e) : e \in EmailIds}

NoID == 0

\* delivery ids the provider can hand out, and one id it never handed out
DeliveryIDs == 1..Cardinality(EmailIds)
UnknownID == Cardinality(EmailIds) + 1

NoCondition == [status |-> "Absent", reason |-> ""]

(***************************************************************************)
(* resend.GetEmailCondition and the event-type tables                      *)
(***************************************************************************)
allowedEvents ==
    {"email.sent", "email.delivered", "email.delivery_delayed", "email.complained",
     "email.bounced", "email.opened", "email.clicked", "email.failed", "email.scheduled"}

successfulDeliveredEventsDeliveredEvents ==
    {"email.delivered", "email.opened", "email.clicked", "email.complained"}

failedDeliveredEvents == {"email.bounced", "email.failed"}

normalDeliveredEvents ==
    {"email.delivered", "email.opened", "email.clicked", "email.scheduled", "email.sent"}

\* the event types the webhook requests of the model carry: one for each
\* combination of condition status and core event type GetEmailCondition yields
WebhookEventTypes ==
    {"email.sent", "email.delivered", "email.delivery_delayed",
     "email.complained", "email.bounced"}

GetEmailConditionComplainedFails(eventType) ==
    [status |-> IF eventType \in failedDeliveredEvents \cup {"email.complained"} THEN "False"
                ELSE IF eventType \in successfulDeliveredEventsDeliveredEvents THEN "True"
                ELSE "Unknown",
     reason |-> IF eventType \in failedDeliveredEvents \cup {"email.complained"}
                THEN "DeliveryFailed"
                ELSE IF eventType \in successfulDeliveredEventsDeliveredEvents THEN "Delivered"
                ELSE "DeliveryPending",
     coreEventType |-> IF eventType \in normalDeliveredEvents THEN "Normal" ELSE "Warning"]

GetEmailConditionAllPending(eventType) ==
    [status |-> "Unknown", reason |-> "DeliveryPending",
     coreEventType |-> IF eventType \in normalDeliveredEvents THEN "Normal" ELSE "Warning"]

GetEmailCondition(eventType) ==
    [status |-> IF eventType \in failedDeliveredEvents THEN "False"
                ELSE IF eventType \in successfulDeliveredEventsDeliveredEvents THEN "True"
                ELSE "Unknown",
     reason |-> IF eventType \in failedDeliveredEvents THEN "DeliveryFailed"
                ELSE IF eventType \in successfulDeliveredEventsDeliveredEvents THEN "Delivered"
                ELSE "DeliveryPending",
     coreEventType |-> IF eventType \in normalDeliveredEvents THEN "Normal" ELSE "Warning"]

(***************************************************************************)
(* Email reconciler                                                        *)
(***************************************************************************)
isEmailAlreadySentDeliveredOnly(email) ==
    email.delivered.status = "True"

isEmailAlreadySentNever(email) == FALSE

\* EmailController.isEmailAlreadySent
isEmailAlreadySent(email) ==
    \/ email.providerID # NoID
    \/ email.delivered.status = "True"

IdempotencyKeyByName(email) == email.name

\* Service.Send: IdempotencyKey: string(email.UID)
IdempotencyKey(email) == email.uid

\* the condition EmailController.Reconcile records after the first accepted send
PendingCondition == [status |-> "Unknown", reason |-> "DeliveryPending"]

\* The provider behind ResendEmailProvider.SendEmail: it keeps one delivery id
\* per idempotency key and accepts a message only for a key it has not seen.
\* outcome "ok": accepted and answered; "lost": accepted, answer lost (the
\* caller sees an error); "err": rejected.
ProviderAfterSend(key, outcome) ==
    IF outcome = "err" \/ resend.ids[key] # NoID
    THEN resend
    ELSE [resend EXCEPT !.ids[key] = resend.next,
                        !.msgs[key] = @ + 1,
                        !.next = @ + 1]

SendResultID(key, outcome) ==
    IF outcome # "ok" THEN NoID
    ELSE IF resend.ids[key] # NoID THEN resend.ids[key] ELSE resend.next

\* send calls issued so far, over all Emails
SendCallsIssued == Len(sendCalls["e1"]) + Len(sendCalls["e2"])

\* EmailController.Reconcile, one pass: Get Email, Get EmailTemplate, Get
GetWaitTimeBeforeRetryHigh(priority) == "highPriorityEmailWait"

\* EmailControllerConfig.GetWaitTimeBeforeRetry: the configured wait of the
\* priority, the normal wait for any other value
GetWaitTimeBeforeRetry(priority) ==
    IF priority = "low" THEN "lowPriorityEmailWait"
    ELSE IF priority = "normal" THEN "normalPriorityEmailWait"
    ELSE IF priority = "high" THEN "highPriorityEmailWait"
    ELSE "normalPriorityEmailWait"

\* recipient, isEmailAlreadySent, Send, then one Status().Update recording
\* ProviderID and Delivered=Unknown/DeliveryPending.  A failed send requeues
\* without writing; a failed status write returns the error (requeue).
\* onCreateFailure: what the pass returned when the create (send) call of the
\* provider failed, the delay of ctrl.Result{RequeueAfter} or "error" for a
\* non-nil error without a delay; "none" when the call did not fail.
EmailReconcile(e, depsOk, outcome, writeOk) ==
    LET email == emails[e]
        key == IdempotencyKey(email)
        id == SendResultID(key, outcome)
    IN IF ~depsOk
       THEN \* template or recipient missing: the pass fails before sending
            /\ lastOp' = [op |-> "EmailReconcile", e |-> e, outcome |-> "depsMissing",
                                  onCreateFailure |-> "none"]
            /\ UNCHANGED emailVars
       ELSE IF isEmailAlreadySent(email)
       THEN /\ lastOp' = [op |-> "EmailReconcile", e |-> e, outcome |-> "skipped",
                                  onCreateFailure |-> "none"]
            /\ UNCHANGED emailVars
       ELSE /\ SendCallsIssued < MaxSends
            /\ sendCalls' = [sendCalls EXCEPT ![e] = Append(@, [key |-> key, id |-> id])]
            /\ resend' = ProviderAfterSend(key, outcome)
            /\ IF outcome # "ok"
               THEN /\ emailPass' = [emailPass EXCEPT ![e] = "sendFailed"]
                    /\ lastOp' = [op |-> "EmailReconcile", e |-> e, outcome |-> "sendFailed",
                                  onCreateFailure |->
                                      GetWaitTimeBeforeRetry(email.priority)]
                    /\ UNCHANGED emails
               ELSE IF ~writeOk
               THEN /\ emailPass' = [emailPass EXCEPT ![e] = "statusFailed"]
                    /\ lastOp' = [op |-> "EmailReconcile", e |-> e, outcome |-> "statusFailed",
                                  onCreateFailure |-> "none"]
                    /\ UNCHANGED emails
               ELSE /\ emails' = [emails EXCEPT ![e].providerID = id,
                                                ![e].delivered = PendingCondition]
                    /\ emailPass' = [emailPass EXCEPT ![e] = "done"]
                    /\ lastOp' = [op |-> "EmailReconcile", e |-> e, outcome |-> "done",
                                  onCreateFailure |-> "none"]
            /\ UNCHANGED <<k8sEvents, webhooks>>

(***************************************************************************)
(* Resend delivery webhook (NewResendWebhookV1)                            *)
(***************************************************************************)
EmailsByProviderIDNone(id) == {}

\* the "status.providerID" field index: Emails with an empty ProviderID are not indexed
EmailsByProviderID(id) ==
    {e \in EmailIds : emails[e].providerID # NoID /\ emails[e].providerID = id}

HandleEmailEventWithoutEvent(eventType, id, outcome) ==
    LET found == EmailsByProviderID(id)
        e == CHOOSE x \in found : TRUE
        c == GetEmailCondition(eventType)
        written == [emails EXCEPT ![e].delivered = [status |-> c.status, reason |-> c.reason]]
    IN IF found = {}
       THEN [http |-> 404, found |-> FALSE, emails |-> emails, k8sEvents |-> k8sEvents]
       ELSE IF outcome = "writeFail"
       THEN [http |-> 500, found |-> TRUE, emails |-> emails, k8sEvents |-> k8sEvents]
       ELSE IF outcome = "eventFail"
       THEN [http |-> 500, found |-> TRUE, emails |-> written, k8sEvents |-> k8sEvents]
       ELSE [http |-> 200, found |-> TRUE, emails |-> written, k8sEvents |-> k8sEvents]

HandleEmailEventKeepsFinal(eventType, id, outcome) ==
    LET found == EmailsByProviderID(id)
        e == CHOOSE x \in found : TRUE
        c == GetEmailCondition(eventType)
        written == [emails EXCEPT ![e].delivered =
                       IF emails[e].delivered.status \in {"True", "False"}
                          /\ c.status = "Unknown"
                       THEN @ ELSE [status |-> c.status, reason |-> c.reason]]
    IN IF found = {}
       THEN [http |-> 404, found |-> FALSE, emails |-> emails, k8sEvents |-> k8sEvents]
       ELSE IF outcome = "writeFail"
       THEN [http |-> 500, found |-> TRUE, emails |-> emails, k8sEvents |-> k8sEvents]
       ELSE IF outcome = "eventFail"
       THEN [http |-> 500, found |-> TRUE, emails |-> written, k8sEvents |-> k8sEvents]
       ELSE [http |-> 200, found |-> TRUE, emails |-> written,
             k8sEvents |-> [k8sEvents EXCEPT ![e] = @ + 1]]

\* The handler of NewResendWebhookV1 applied to a parsed event: the answer
\* and the store it leaves.  outcome "ok": status written and Event created;
\* "writeFail": Status().Update failed; "eventFail": status written, Event
\* creation failed.
HandleEmailEvent(eventType, id, outcome) ==
    LET found == EmailsByProviderID(id)
        e == CHOOSE x \in found : TRUE
        c == GetEmailCondition(eventType)
        written == [emails EXCEPT ![e].delivered = [status |-> c.status, reason |-> c.reason]]
    IN IF found = {}
       THEN [http |-> 404, found |-> FALSE, emails |-> emails, k8sEvents |-> k8sEvents]
       ELSE IF outcome = "writeFail"
       THEN [http |-> 500, found |-> TRUE, emails |-> emails, k8sEvents |-> k8sEvents]
       ELSE IF outcome = "eventFail"
       THEN [http |-> 500, found |-> TRUE, emails |-> written, k8sEvents |-> k8sEvents]
       ELSE [http |-> 200, found |-> TRUE, emails |-> written,
             k8sEvents |-> [k8sEvents EXCEPT ![e] = @ + 1]]

\* one request on the delivery path, past signature check and parsing
EmailWebhook(eventType, id, outcome) ==
    LET r == HandleEmailEvent(eventType, id, outcome)
    IN /\ r.found => webhooks < MaxWebhooks
       /\ webhooks' = IF r.found THEN webhooks + 1 ELSE webhooks
       /\ emails' = r.emails
       /\ k8sEvents' = r.k8sEvents
       /\ lastOp' = IF r.found
                    THEN [op |-> "EmailWebhook", type |-> eventType, id |-> id, http |-> r.http]
                    ELSE [op |-> "EmailWebhook", id |-> id, http |-> r.http]
       /\ UNCHANGED <<emailPass, sendCalls, resend>>

(***************************************************************************)
(* Contacts, ContactGroups, ContactGroupMemberships: identities            *)
(***************************************************************************)
ContactIds == {"c1", "c2"}

GroupIds == {"g1", "g2"}

CgmIds == {"m1", "m2", "m3"}

RemovalIds == {"r1"}

\* spec.contactRef and spec.contactGroupRef of each ContactGroupMembership
CgmContact(m) == IF m = "m3" THEN "c2" ELSE "c1"

CgmGroup(m) == IF m = "m2" THEN "g2" ELSE "g1"

\* the ContactGroupMembershipRemoval r1 names contact c1 and group g1
RemovalContact(r) == "c1"

RemovalGroup(r) == "g1"

\* position of a membership in a List result
CgmOrder(m) == IF m = "m1" THEN 1 ELSE IF m = "m2" THEN 2 ELSE 3

\* metadata.uid of a Contact
ContactUID(c) == IF c = "c1" THEN "cuid-1" ELSE "cuid-2"

\* spec.email of a Contact: every spec update gives it a new address
ContactEmail(c, generation) == <<c, generation>>

\* the audience id the provider gave a ContactGroup
AudienceID(g) == IF g = "g1" THEN "aud-1" ELSE "aud-2"

\* field indexes: memberships by contact and by contact group
\* metadata.name of a Contact
ContactName(c) == IF c = "c1" THEN "alice" ELSE "newsletter-bob"

\* metadata.name of a ContactGroup
GroupName(g) == g

\* metadata.namespace of the Contacts and ContactGroups of the store; a
\* reference of a membership may name another namespace
ContactNamespace(c) == "default"

GroupNamespace(g) == "default"

Namespaces == {"default", "other-ns"}

buildKeyOfNameOnly(name, namespace) == name

\* buildContactNamespacedIndexKey: "<contact-ns>|<contact-name>"
buildContactNamespacedIndexKey(contactName, contactNamespace) ==
    contactNamespace \o "|" \o contactName

\* buildContactGroupNamespacedIndexKey: "<group-ns>|<group-name>"
buildContactGroupNamespacedIndexKey(cgName, cgNamespace) ==
    cgNamespace \o "|" \o cgName

\* the contactRef (the contactGroupRef) of membership m resolves to the
\* Contact (the ContactGroup) of the store with that name
RefersToContact(cgm, m) == cgm.contactNs = ContactNamespace(CgmContact(m))

RefersToGroup(cgm, m) == cgm.groupNs = GroupNamespace(CgmGroup(m))

\* List by the index of the contact reference (of the group reference)
MembershipsOfContact(cg, c) ==
    {m \in CgmIds :
        /\ cg[m].exists
        /\ buildContactNamespacedIndexKey(ContactName(CgmContact(m)), cg[m].contactNs)
             = buildContactNamespacedIndexKey(ContactName(c), ContactNamespace(c))}

MembershipsOfGroup(cg, g) ==
    {m \in CgmIds :
        /\ cg[m].exists
        /\ buildContactGroupNamespacedIndexKey(GroupName(CgmGroup(m)), cg[m].groupNs)
             = buildContactGroupNamespacedIndexKey(GroupName(g), GroupNamespace(g))}

\* Client.Delete on each membership of M: an object holding a finalizer gets
\* its deletionTimestamp, an object holding none leaves the store
StoreDelete(cg, M) ==
    [m \in CgmIds |->
        IF m \in M /\ cg[m].exists
        THEN IF cg[m].finalizer THEN [cg[m] EXCEPT !.deleting = TRUE]
             ELSE [cg[m] EXCEPT !.exists = FALSE]
        ELSE cg[m]]

HandledNone(listed, failAt) == {}

\* the memberships of a List result a loop handled before the one that failed
HandledBefore(listed, failAt) ==
    IF failAt \in listed
    THEN {m \in listed : CgmOrder(m) < CgmOrder(failAt)}
    ELSE listed

(***************************************************************************)
(* emailprovider.Service over the Resend provider: memberships             *)
(***************************************************************************)
\* ResendEmailProvider.GetContactGroupMembershipByEmail
GetContactGroupMembershipByEmail(aud, audienceID, email, out) ==
    LET hits == {x \in aud.entries : x.group = audienceID /\ x.email = email}
    IN IF out = "err" THEN [err |-> "error", id |-> NoID]
       ELSE IF hits = {} THEN [err |-> "NotFound", id |-> NoID]
       ELSE [err |-> "none", id |-> (CHOOSE x \in hits : TRUE).id]

\* Service.CreateContactGroupMembership / ResendEmailProvider.CreateContactGroupMembership
CreateContactGroupMembership(aud, audienceID, email, out) ==
    IF out = "err"
    THEN [aud |-> aud, err |-> "error", id |-> NoID]
    ELSE [aud |-> [entries |-> aud.entries \cup
                                  {[id |-> aud.next, group |-> audienceID, email |-> email]},
                   next |-> aud.next + 1],
          err |-> "none", id |-> aud.next]

CreateContactGroupMembershipNoProbe(aud, audienceID, email, probeOut, createOut) ==
    LET c == CreateContactGroupMembership(aud, audienceID, email, createOut)
    IN [aud |-> c.aud, err |-> c.err, id |-> c.id,
        calls |-> <<[call |-> "create", res |-> IF c.err = "none" THEN "ok" ELSE "error"]>>]

\* Service.CreateContactGroupMembershipIdempotent
CreateContactGroupMembershipIdempotent(aud, audienceID, email, probeOut, createOut) ==
    LET existing == GetContactGroupMembershipByEmail(aud, audienceID, email, probeOut)
        c == CreateContactGroupMembership(aud, audienceID, email, createOut)
    IN IF existing.err = "NotFound"
       THEN [aud |-> c.aud, err |-> c.err, id |-> c.id,
             calls |-> <<[call |-> "get", res |-> "NotFound"],
                         [call |-> "create", res |-> IF c.err = "none" THEN "ok" ELSE "error"]>>]
       ELSE IF existing.err # "none"
       THEN [aud |-> aud, err |-> "error", id |-> NoID,
             calls |-> <<[call |-> "get", res |-> "error"]>>]
       ELSE [aud |-> aud, err |-> "none", id |-> existing.id,
             calls |-> <<[call |-> "get", res |-> "found"]>>]

\* a provider that answers the delete of a membership it does not hold with
\* an error other than "not found"
DeleteContactGroupMembershipNeverNotFound(aud, audienceID, id, out) ==
    LET hits == {x \in aud.entries : x.group = audienceID /\ x.id = id}
    IN IF out = "err" \/ hits = {} THEN [aud |-> aud, err |-> "error", deleted |-> FALSE]
       ELSE IF out = "refused" THEN [aud |-> aud, err |-> "none", deleted |-> FALSE]
       ELSE [aud |-> [aud EXCEPT !.entries = @ \ hits], err |-> "none", deleted |-> TRUE]

\* Service.DeleteContactGroupMembershipIdempotent / ResendEmailProvider.DeleteContactGroupMembership:
\* a provider error comes back translated, "not found" as NotFound; otherwise
\* the provider's Deleted flag is passed through
DeleteContactGroupMembershipIdempotent(aud, audienceID, id, out) ==
    LET hits == {x \in aud.entries : x.group = audienceID /\ x.id = id}
    IN IF out = "err" THEN [aud |-> aud, err |-> "error", deleted |-> FALSE]
       ELSE IF hits = {} THEN [aud |-> aud, err |-> "NotFound", deleted |-> FALSE]
       ELSE IF out = "refused" THEN [aud |-> aud, err |-> "none", deleted |-> FALSE]
       ELSE [aud |-> [aud EXCEPT !.entries = @ \ hits], err |-> "none", deleted |-> TRUE]

DeleteResult(d) ==
    IF d.err # "none" THEN d.err ELSE IF d.deleted THEN "deleted" ELSE "refused"

UpdateContactGroupMembershipIgnoringDeleted(aud, audienceID, oldID, email, delOut, createOut) ==
    LET d == DeleteContactGroupMembershipIdempotent(aud, audienceID, oldID, delOut)
        c == CreateContactGroupMembership(d.aud, audienceID, email, createOut)
    IN [aud |-> c.aud, err |-> c.err, id |-> c.id,
        calls |-> <<[call |-> "delete", res |-> DeleteResult(d)],
                    [call |-> "create", res |-> IF c.err = "none" THEN "ok" ELSE "error"]>>]

\* Service.UpdateContactGroupMembership: delete the old membership, then create a new one
UpdateContactGroupMembership(aud, audienceID, oldID, email, delOut, createOut) ==
    LET d == DeleteContactGroupMembershipIdempotent(aud, audienceID, oldID, delOut)
        c == CreateContactGroupMembership(d.aud, audienceID, email, createOut)
    IN IF d.err # "none"
       THEN [aud |-> d.aud, err |-> d.err, id |-> NoID,
             calls |-> <<[call |-> "delete", res |-> DeleteResult(d)]>>]
       ELSE IF ~d.deleted
       THEN [aud |-> d.aud, err |-> "error", id |-> NoID,
             calls |-> <<[call |-> "delete", res |-> DeleteResult(d)]>>]
       ELSE [aud |-> c.aud, err |-> c.err, id |-> c.id,
             calls |-> <<[call |-> "delete", res |-> DeleteResult(d)],
                         [call |-> "create", res |-> IF c.err = "none" THEN "ok" ELSE "error"]>>]

(***************************************************************************)
(* The Loops provider and LoopsContactController.createContact             *)
(***************************************************************************)
\* LoopsEmail.FindContactByUserID
FindContactByUserID(lp, userId, out) ==
    IF out = "err" THEN [err |-> "error", found |-> {}]
    ELSE [err |-> "none", found |-> {x \in lp.entries : x.userId = userId}]

\* LoopsEmail.CreateContact: 409 comes back as Conflict
LoopsCreateContact(lp, userId, out) ==
    IF out = "err" THEN [lp |-> lp, err |-> "error", id |-> NoID]
    ELSE IF out = "conflict" \/ \E x \in lp.entries : x.userId = userId
    THEN [lp |-> lp, err |-> "Conflict", id |-> NoID]
    ELSE [lp |-> [lp EXCEPT !.entries = @ \cup {[id |-> lp.next, userId |-> userId]},
                            !.next = @ + 1],
          err |-> "none", id |-> lp.next]

\* LoopsContactController.createContact
createContact(lp, userId, findOut, createOut) ==
    LET existing == FindContactByUserID(lp, userId, findOut)
        c == LoopsCreateContact(lp, userId, createOut)
    IN IF existing.err # "none"
       THEN [lp |-> lp, err |-> "error", id |-> NoID,
             calls |-> <<[call |-> "find", res |-> "error"]>>]
       ELSE IF existing.found # {}
       THEN [lp |-> lp, err |-> "none", id |-> (CHOOSE x \in existing.found : TRUE).id,
             calls |-> <<[call |-> "find", res |-> "found"]>>]
       ELSE [lp |-> c.lp, err |-> c.err, id |-> c.id,
             calls |-> <<[call |-> "find", res |-> "empty"],
                         [call |-> "create", res |-> IF c.err = "none" THEN "ok" ELSE c.err]>>]

\* One invocation of Service.CreateContactGroupMembershipIdempotent for the
\* contact group g and the contact c; a successful result is logged.
InvokeCreateMembership(g, c, probeOut, createOut) ==
    LET i == <<"cgm", g, c>>
        r == CreateContactGroupMembershipIdempotent(audience, AudienceID(g),
                 ContactEmail(c, contacts[c].generation), probeOut, createOut)
    IN /\ r.aud.next <= MaxCreates + 1
       /\ audience' = r.aud
       /\ IF r.err = "none"
          THEN /\ Len(createLog[i]) < MaxInvocations
               /\ createLog' = [createLog EXCEPT ![i] = Append(@, [id |-> r.id, calls |-> r.calls])]
          ELSE UNCHANGED createLog
       /\ lastOp' = [op |-> "InvokeCreateMembership", i |-> i, err |-> r.err]
       /\ UNCHANGED loops

\* One invocation of LoopsContactController.createContact for the contact c
InvokeCreateLoopsContact(c, findOut, createOut) ==
    LET i == <<"loops", c>>
        r == createContact(loops, ContactUID(c), findOut, createOut)
    IN /\ r.lp.next <= MaxCreates + 1
       /\ loops' = r.lp
       /\ IF r.err = "none"
          THEN /\ Len(createLog[i]) < MaxInvocations
               /\ createLog' = [createLog EXCEPT ![i] = Append(@, [id |-> r.id, calls |-> r.calls])]
          ELSE UNCHANGED createLog
       /\ lastOp' = [op |-> "InvokeCreateLoopsContact", i |-> i, err |-> r.err]
       /\ UNCHANGED audience

(***************************************************************************)
(* The guard of every reconciler's status write                            *)
(***************************************************************************)
StatusChangedAlways(old, new) == TRUE

\* !equality.Semantic.DeepEqual(oldStatus, &obj.Status)
StatusChanged(old, new) == old # new

(***************************************************************************)
(* ContactGroupMembershipController                                        *)
(***************************************************************************)
\* the object in memory after the first-creation case
CgmAfterCreate(cgm, r) ==
    IF r.err # "none" THEN cgm
    ELSE [cgm EXCEPT !.providerID = r.id, !.ready = "CreatePending"]

CgmAfterUpdateAlways(cgm, r) ==
    [cgm EXCEPT !.providerID = r.id, !.updated = "UpdatePending"]

\* the object in memory after the update-requested case: an error of the
\* provider update returns before the object is touched
CgmAfterUpdate(cgm, r) ==
    IF r.err # "none" THEN cgm
    ELSE [cgm EXCEPT !.providerID = r.id, !.updated = "UpdatePending"]

CgmFinalizeAlwaysDone(cgm, g, delOut, writeOk) ==
    LET d == DeleteContactGroupMembershipIdempotent(audience, groups[g].providerID,
                                                    cgm.providerID, delOut)
    IN [done |-> TRUE, cgm |-> cgm, aud |-> d.aud,
        calls |-> <<[call |-> "delete", res |-> DeleteResult(d)]>>]

CgmFinalizeNotFoundFails(cgm, g, delOut, writeOk) ==
    LET d == DeleteContactGroupMembershipIdempotent(audience, groups[g].providerID,
                                                    cgm.providerID, delOut)
        call == <<[call |-> "delete", res |-> DeleteResult(d)]>>
    IN IF cgm.deleted = "True"
       THEN [done |-> TRUE, cgm |-> cgm, aud |-> audience, calls |-> <<>>]
       ELSE IF cgm.groupNs # GroupNamespace(g) \/ ~groups[g].exists
       THEN [done |-> FALSE, cgm |-> cgm, aud |-> audience, calls |-> <<>>]
       ELSE IF d.err # "none" \/ ~d.deleted
       THEN [done |-> FALSE, cgm |-> cgm, aud |-> d.aud, calls |-> call]
       ELSE [done |-> FALSE,
             cgm |-> IF writeOk THEN [cgm EXCEPT !.deleted = "DeletePending"] ELSE cgm,
             aud |-> d.aud, calls |-> call]

CgmFinalizeUnchecked(cgm, g, delOut, writeOk) ==
    LET d == DeleteContactGroupMembershipIdempotent(audience, groups[g].providerID,
                                                    cgm.providerID, delOut)
        call == <<[call |-> "delete", res |-> DeleteResult(d)]>>
    IN IF cgm.groupNs # GroupNamespace(g) \/ ~groups[g].exists
       THEN [done |-> FALSE, cgm |-> cgm, aud |-> audience, calls |-> <<>>]
       ELSE IF d.err = "NotFound"
       THEN [done |-> TRUE, cgm |-> cgm, aud |-> d.aud, calls |-> call]
       ELSE IF d.err # "none" \/ ~d.deleted
       THEN [done |-> FALSE, cgm |-> cgm, aud |-> d.aud, calls |-> call]
       ELSE [done |-> FALSE,
             cgm |-> IF writeOk THEN [cgm EXCEPT !.deleted = "DeletePending"] ELSE cgm,
             aud |-> d.aud, calls |-> call]

\* contactGroupMembershipFinalizer.Finalize: done means the finalizer may be removed
CgmFinalize(cgm, g, delOut, writeOk) ==
    LET d == DeleteContactGroupMembershipIdempotent(audience, groups[g].providerID,
                                                    cgm.providerID, delOut)
        call == <<[call |-> "delete", res |-> DeleteResult(d)]>>
    IN IF cgm.deleted = "True"
       THEN [done |-> TRUE, cgm |-> cgm, aud |-> audience, calls |-> <<>>]
       ELSE IF cgm.groupNs # GroupNamespace(g) \/ ~groups[g].exists
       THEN [done |-> FALSE, cgm |-> cgm, aud |-> audience, calls |-> <<>>]
       ELSE IF d.err = "NotFound"
       THEN [done |-> TRUE, cgm |-> cgm, aud |-> d.aud, calls |-> call]
       ELSE IF d.err # "none" \/ ~d.deleted
       THEN [done |-> FALSE, cgm |-> cgm, aud |-> d.aud, calls |-> call]
       ELSE [done |-> FALSE,
             cgm |-> IF writeOk THEN [cgm EXCEPT !.deleted = "DeletePending"] ELSE cgm,
             aud |-> d.aud, calls |-> call]

\* a pass that never registers the finalizer
NeedsFinalizerNever(deleting, held) == FALSE

\* Finalizers.Finalize on an object that is not being deleted and does not hold
\* the finalizer of the controller: it adds the finalizer and reports Updated
NeedsFinalizer(deleting, held) == ~deleting /\ ~held

\* ContactGroupMembershipController.Reconcile, one pass
CGMReconcile(m, probeOut, createOut, delOut, writeOk) ==
    LET cgm == cgms[m]
        c == CgmContact(m)
        g == CgmGroup(m)
        email == ContactEmail(c, contacts[c].generation)
        fin == CgmFinalize(cgm, g, delOut, writeOk)
        cr == CreateContactGroupMembershipIdempotent(audience, groups[g].providerID, email,
                                                     probeOut, createOut)
        up == UpdateContactGroupMembership(audience, groups[g].providerID, cgm.providerID,
                                           email, delOut, createOut)
        \* statusWrites: the Status().Update calls the pass issued; the guard
        \* issues one when the provider reported the membership deleted.
        \* changed: the status in memory differs from the status read
        Done(branch, calls, wrote, statusWrites) ==
            lastOp' = [op |-> "CGMReconcile", m |-> m, branch |-> branch,
                       calls |-> calls, wrote |-> wrote, statusWrites |-> statusWrites,
                       onCreateFailure |-> IF branch = "create" /\ cr.err # "none"
                                           THEN "error" ELSE "none",
                       changed |-> IF branch = "create" THEN CgmAfterCreate(cgm, cr) # cgm
                                   ELSE IF branch = "update" THEN CgmAfterUpdate(cgm, up) # cgm
                                   ELSE IF branch = "finalize"
                                   THEN /\ fin.calls # <<>>
                                        /\ fin.calls[1].res = "deleted"
                                        /\ cgm.deleted # "DeletePending"
                                   ELSE FALSE,
                       guard |-> IF branch # "finalize" THEN "none"
                                 ELSE IF fin.done THEN "success" ELSE "error"]
    IN IF ~cgm.exists
       THEN Done("gone", <<>>, FALSE, 0) /\ UNCHANGED <<cgms, audience>>
       ELSE IF cgm.deleting /\ cgm.finalizer
       THEN \* the finalizer runs; on success it is removed with Client.Update
            /\ audience' = fin.aud
            /\ cgms' = [cgms EXCEPT ![m] =
                   IF fin.done /\ writeOk THEN [fin.cgm EXCEPT !.exists = FALSE, !.finalizer = FALSE]
                   ELSE fin.cgm]
            /\ Done("finalize", fin.calls, cgms'[m] # cgm,
                    IF fin.calls # <<>> /\ fin.calls[1].res = "deleted" THEN 1 ELSE 0)
       ELSE IF NeedsFinalizer(cgm.deleting, cgm.finalizer)
       THEN \* the finalizer is added with Client.Update, and the pass ends
            /\ cgms' = [cgms EXCEPT ![m].finalizer = writeOk]
            /\ Done("addFinalizer", <<>>, writeOk, 0)
            /\ UNCHANGED audience
       ELSE IF ~RefersToContact(cgm, m) \/ ~contacts[c].exists
               \/ ~RefersToGroup(cgm, m) \/ ~groups[g].exists
       THEN Done("depsMissing", <<>>, FALSE, 0) /\ UNCHANGED <<cgms, audience>>
       ELSE IF cgm.ready = "Absent"
       THEN /\ cr.aud.next <= MaxCreates + 1
            /\ audience' = cr.aud
            /\ cgms' = [cgms EXCEPT ![m] =
                   IF writeOk THEN CgmAfterCreate(cgm, cr) ELSE cgm]
            /\ Done("create", cr.calls, cgms'[m] # cgm,
                    IF StatusChanged(cgm, CgmAfterCreate(cgm, cr)) THEN 1 ELSE 0)
       ELSE IF cgm.updated = "UpdateRequested"
       THEN /\ up.aud.next <= MaxCreates + 1
            /\ audience' = up.aud
            /\ cgms' = [cgms EXCEPT ![m] =
                   IF writeOk THEN CgmAfterUpdate(cgm, up) ELSE cgm]
            /\ Done("update", up.calls, cgms'[m] # cgm,
                    IF StatusChanged(cgm, CgmAfterUpdate(cgm, up)) THEN 1 ELSE 0)
       ELSE Done("none", <<>>, FALSE, 0) /\ UNCHANGED <<cgms, audience>>

(***************************************************************************)
(* ContactController                                                       *)
(***************************************************************************)
\* ContactGroupMembershipRemoval objects naming a contact; Client.Delete removes them
RemovalsOfContact(c) == {r \in RemovalIds : cgmrs[r] /\ RemovalContact(r) = c}

\* the memberships still in the store after the guard deleted its list
RelistNone(cg, c) == {}

\* contactFinalizer.Finalize: the second List of the memberships of the contact
RelistOfContact(cg, c) == MembershipsOfContact(cg, c)

ContactNeedsUpdateAlways(contact) == TRUE

ContactNeedsUpdateAbsent(contact) == contact.updatedGen = 0

\* the update case of ContactController.Reconcile: the Updated condition is
\* absent or was written for another generation
ContactNeedsUpdate(contact) ==
    contact.updatedGen = 0 \/ contact.updatedGen # contact.generation

\* ContactController.Reconcile, one pass.  failAt names the membership whose
\* store write fails in a loop over memberships ("none": all succeed).
ContactReconcile(c, failAt, writeOk) ==
    LET contact == contacts[c]
        listed == MembershipsOfContact(cgms, c)
        handled == HandledBefore(listed, failAt)
        afterDelete == StoreDelete(cgms, handled)
        remaining == RelistOfContact(afterDelete, c)
        marked == [m \in CgmIds |->
                      IF m \in handled THEN [cgms[m] EXCEPT !.updated = "UpdateRequested"]
                      ELSE cgms[m]]
        \* statusWrites: the Status().Update calls the pass issued, markerWrites
        \* those on memberships.  changed: the status in memory differs from
        \* the status read
        Done(branch, wrote, statusWrites) ==
            lastOp' = [op |-> "ContactReconcile", c |-> c, branch |-> branch, wrote |-> wrote,
                       statusWrites |-> statusWrites,
                       markerWrites |->
                           IF branch # "update" THEN 0
                           ELSE IF failAt \in listed THEN Cardinality(handled) + 1
                           ELSE Cardinality(listed),
                       changed |-> branch \in {"create", "update"}]
    IN IF ~contact.exists
       THEN Done("gone", FALSE, 0) /\ UNCHANGED clusterVars
       ELSE IF ~contact.deleting /\ "contact" \notin contact.finalizers
       THEN /\ contacts' = [contacts EXCEPT ![c].finalizers =
                               IF writeOk THEN @ \cup {"contact"} ELSE @]
            /\ Done("addFinalizer", writeOk, 0)
            /\ UNCHANGED <<groups, cgms, cgmrs>>
       ELSE IF contact.deleting /\ "contact" \in contact.finalizers
       THEN \* contactFinalizer.Finalize, then removal of the finalizer
            /\ cgms' = afterDelete
            /\ IF failAt \in listed \/ remaining # {}
               THEN /\ Done("finalizeWaiting", FALSE, 0)
                    /\ UNCHANGED <<contacts, cgmrs>>
               ELSE /\ cgmrs' = [r \in RemovalIds |->
                                    IF r \in RemovalsOfContact(c) THEN FALSE ELSE cgmrs[r]]
                    /\ contacts' = [contacts EXCEPT ![c] =
                          IF ~writeOk THEN @
                          ELSE [@ EXCEPT !.finalizers = @ \ {"contact"},
                                         !.exists = (contact.finalizers \ {"contact"}) # {}]]
                    /\ Done("finalized", writeOk, 0)
            /\ UNCHANGED groups
       ELSE IF contact.ready = "Absent"
       THEN /\ contacts' = [contacts EXCEPT ![c].ready = IF writeOk THEN "True" ELSE @]
            /\ Done("create", writeOk,
                    IF StatusChanged(contact, [contact EXCEPT !.ready = "True"]) THEN 1 ELSE 0)
            /\ UNCHANGED <<groups, cgms, cgmrs>>
       ELSE IF ContactNeedsUpdate(contact)
       THEN \* mark every membership of the contact, then record the generation
            /\ cgms' = marked
            /\ contacts' = [contacts EXCEPT ![c].updatedGen =
                               IF failAt \notin listed /\ writeOk
                               THEN contact.generation ELSE @,
                                             ![c].updatePending =
                               IF failAt \notin listed /\ writeOk THEN FALSE ELSE @]
            /\ Done("update", failAt \notin listed /\ writeOk,
                    IF failAt \in listed THEN Cardinality(handled) + 1
                    ELSE Cardinality(listed)
                         + IF StatusChanged(contact, [contact EXCEPT !.updatedGen =
                                                         contact.generation,
                                                         !.updatePending = FALSE])
                           THEN 1 ELSE 0)
            /\ UNCHANGED <<groups, cgmrs>>
       ELSE Done("none", FALSE, 0) /\ UNCHANGED clusterVars

\* a client edits the spec of a Contact: metadata.generation advances
ContactSpecUpdate(c) ==
    /\ contacts[c].exists
    /\ ~contacts[c].deleting
    /\ contacts[c].generation < MaxGeneration
    /\ contacts' = [contacts EXCEPT ![c].generation = @ + 1]
    /\ lastOp' = [op |-> "ContactSpecUpdate", c |-> c]
    /\ UNCHANGED <<groups, cgms, cgmrs>>

(***************************************************************************)
(* ContactGroupController and its deletion guard                           *)
(***************************************************************************)
RemovalsOfGroup(g) == {r \in RemovalIds : cgmrs[r] /\ RemovalGroup(r) = g}

RelistNoneOfGroup(cg, g) == {}

\* contactGroupFinalizer.Finalize: the second List of the memberships of the group
RelistOfGroup(cg, g) == MembershipsOfGroup(cg, g)

\* Service.GetContactGroup then Service.DeleteContactGroup, as the guard calls
\* them: done means the guard succeeded
DeleteProviderGroup(rg, audienceID, getOut, delOut) ==
    IF getOut = "err"
    THEN [rg |-> rg, done |-> FALSE, calls |-> <<[call |-> "getGroup", res |-> "error"]>>]
    ELSE IF audienceID \notin rg
    THEN [rg |-> rg, done |-> TRUE, calls |-> <<[call |-> "getGroup", res |-> "NotFound"]>>]
    ELSE IF delOut = "err"
    THEN [rg |-> rg, done |-> FALSE,
          calls |-> <<[call |-> "getGroup", res |-> "found"],
                      [call |-> "deleteGroup", res |-> "error"]>>]
    ELSE IF delOut = "refused"
    THEN [rg |-> rg, done |-> FALSE,
          calls |-> <<[call |-> "getGroup", res |-> "found"],
                      [call |-> "deleteGroup", res |-> "refused"]>>]
    ELSE [rg |-> rg \ {audienceID}, done |-> TRUE,
          calls |-> <<[call |-> "getGroup", res |-> "found"],
                      [call |-> "deleteGroup", res |-> "deleted"]>>]

\* Service.CreateContactGroupIdempotent: the audience of the group is looked
\* up and created when the provider does not hold it
CreateContactGroupIdempotent(rg, g, out) ==
    IF out = "err" THEN [rg |-> rg, err |-> "error", id |-> NoID]
    ELSE [rg |-> rg \cup {AudienceID(g)}, err |-> "none", id |-> AudienceID(g)]

\* ContactGroupController.Reconcile, one pass
ContactGroupReconcile(g, failAt, getOut, delOut, writeOk) ==
    LET group == groups[g]
        listed == MembershipsOfGroup(cgms, g)
        handled == HandledBefore(listed, failAt)
        afterDelete == StoreDelete(cgms, handled)
        remaining == RelistOfGroup(afterDelete, g)
        del == DeleteProviderGroup(resendGroups, group.providerID, getOut, delOut)
        cr == CreateContactGroupIdempotent(resendGroups, g, getOut)
        \* the Updated condition of the update case
        updated == [group EXCEPT !.updated = "True", !.updatedGen = group.generation]
        \* statusWrites: the Status().Update calls the pass issued
        \* changed: the status in memory differs from the status read
        Done(branch, calls, wrote, statusWrites) ==
            lastOp' = [op |-> "ContactGroupReconcile", g |-> g, branch |-> branch,
                       calls |-> calls, wrote |-> wrote, statusWrites |-> statusWrites,
                       onCreateFailure |-> IF branch = "create" /\ cr.err # "none"
                                           THEN "error" ELSE "none",
                       changed |-> IF branch = "create" THEN cr.err = "none"
                                   ELSE branch = "update" /\ updated # group]
    IN IF ~group.exists
       THEN Done("gone", <<>>, FALSE, 0) /\ UNCHANGED <<groups, cgms, cgmrs, resendGroups>>
       ELSE IF NeedsFinalizer(group.deleting, group.finalizer)
       THEN /\ groups' = [groups EXCEPT ![g].finalizer = writeOk]
            /\ Done("addFinalizer", <<>>, writeOk, 0)
            /\ UNCHANGED <<cgms, cgmrs, resendGroups>>
       ELSE IF group.deleting /\ group.finalizer
       THEN \* contactGroupFinalizer.Finalize, then removal of the finalizer
            /\ cgms' = afterDelete
            /\ IF failAt \in listed \/ remaining # {}
               THEN /\ Done("finalizeWaiting", <<>>, FALSE, 0)
                    /\ UNCHANGED <<groups, cgmrs, resendGroups>>
               ELSE /\ cgmrs' = [r \in RemovalIds |->
                                    IF r \in RemovalsOfGroup(g) THEN FALSE ELSE cgmrs[r]]
                    /\ resendGroups' = del.rg
                    /\ groups' = [groups EXCEPT ![g] =
                          IF del.done /\ writeOk
                          THEN [@ EXCEPT !.finalizer = FALSE, !.exists = FALSE]
                          ELSE @]
                    /\ Done("finalize", del.calls, del.done /\ writeOk, 0)
       ELSE IF group.ready = "Absent"
       THEN /\ resendGroups' = cr.rg
            /\ groups' = [groups EXCEPT ![g] =
                  IF cr.err = "none" /\ writeOk
                  THEN [@ EXCEPT !.providerID = cr.id, !.ready = "True",
                                 !.readyGen = group.generation]
                  ELSE @]
            /\ Done("create", <<[call |-> "createGroup",
                                 res |-> IF cr.err = "none" THEN "ok" ELSE "error"]>>,
                    cr.err = "none" /\ writeOk, IF cr.err = "none" THEN 1 ELSE 0)
            /\ UNCHANGED <<cgms, cgmrs>>
       ELSE IF group.readyGen # group.generation
       THEN /\ groups' = [groups EXCEPT ![g] = IF writeOk THEN updated ELSE @]
            /\ Done("update", <<>>, writeOk /\ updated # group,
                    IF StatusChanged(group, updated) THEN 1 ELSE 0)
            /\ UNCHANGED <<cgms, cgmrs, resendGroups>>
       ELSE Done("none", <<>>, FALSE, 0) /\ UNCHANGED <<groups, cgms, cgmrs, resendGroups>>

\* a client edits the spec of a ContactGroup: metadata.generation advances
GroupSpecUpdate(g) ==
    /\ groups[g].exists
    /\ ~groups[g].deleting
    /\ groups[g].generation < MaxGeneration
    /\ groups' = [groups EXCEPT ![g].generation = @ + 1]
    /\ lastOp' = [op |-> "GroupSpecUpdate", g |-> g]
    /\ UNCHANGED <<contacts, cgms, cgmrs, resendGroups>>

(***************************************************************************)
(* LoopsContactController and its deletion guard                           *)
(***************************************************************************)
\* LoopsContactController.isNewsletterContact: the name starts with "newsletter-"
isNewsletterContact(c) ==
    /\ Len(ContactName(c)) >= Len("newsletter-")
    /\ SubSeq(ContactName(c), 1, Len("newsletter-")) = "newsletter-"

\* the group whose name is LoopsContactController.NewsletterContactGroupId
NewsletterContactGroupId == "g2"

\* LoopsEmail.DeleteContact as loopsContactFinalizer.DeleteContact sees it
LoopsDeleteContact(lp, userId, out) ==
    LET hits == {x \in lp.entries : x.userId = userId}
    IN IF out = "err" THEN [lp |-> lp, err |-> "error"]
       ELSE IF hits = {} THEN [lp |-> lp, err |-> "NotFound"]
       ELSE [lp |-> [lp EXCEPT !.entries = @ \ hits, !.subscribed = @ \ {userId}],
             err |-> "none"]

\* LoopsContactController.updateContact
updateContact(lp, userId, findOut, out) ==
    LET existing == FindContactByUserID(lp, userId, findOut)
    IN IF existing.err # "none" THEN "error"
       ELSE IF existing.found = {} THEN "NotFound"
       ELSE IF out = "err" THEN "error"
       ELSE IF out = "conflict" THEN "Conflict"
       ELSE "none"

\* a reconciler that does not look at the NewsLetterAdded condition
NewsLetterAlreadyAddedNever(contact) == FALSE

\* addToNewsLetterList: the NewsLetterAdded condition is True, and the call is
\* skipped
NewsLetterAlreadyAdded(contact) == contact.newsletter = "True"

\* whether the pass calls addToNewsLetterList for the contact
WantsNewsletter(c) ==
    \/ isNewsletterContact(c)
    \/ \E m \in MembershipsOfContact(cgms, c) : CgmGroup(m) = NewsletterContactGroupId

\* LoopsContactController.Reconcile, one pass
LoopsContactReconcile(c, findOut, out, nlOut, writeOk) ==
    LET contact == contacts[c]
        uid == ContactUID(c)
        del == LoopsDeleteContact(loops, uid, out)
        cr == createContact(loops, uid, findOut, out)
        upErr == updateContact(loops, uid, findOut, out)
        creating == contact.loopsReady \in {"Absent", "NotCreated"}
        updating == ~creating /\ contact.loopsGen # contact.generation
        \* the provider after the create / update case
        lp1 == IF creating THEN cr.lp ELSE loops
        \* the object in memory after the create / update case
        s1 == IF creating
              THEN IF cr.err = "Conflict"
                   THEN [contact EXCEPT !.loopsReady = "NotCreated",
                                        !.loopsGen = contact.generation]
                   ELSE [contact EXCEPT !.loopsReady = "Created",
                                        !.loopsGen = contact.generation,
                                        !.loopsID = cr.id]
              ELSE IF updating
              THEN [contact EXCEPT !.loopsReady = IF upErr = "none" THEN "Updated"
                                                  ELSE "NotUpdated",
                                   !.loopsGen = contact.generation]
              ELSE contact
        aborted == \/ creating /\ cr.err = "error"
                   \/ updating /\ upErr = "error"
        addNl == WantsNewsletter(c) /\ ~NewsLetterAlreadyAdded(s1)
        s2 == IF addNl THEN [s1 EXCEPT !.newsletter = IF nlOut = "ok" THEN "True" ELSE "False"]
              ELSE s1
        lp2 == IF addNl /\ nlOut = "ok" THEN [lp1 EXCEPT !.subscribed = @ \cup {uid}] ELSE lp1
        \* statusWrites: the Status().Patch calls the pass issued
        \* changed: the status in memory differs from the status read
        Done(branch, calls, wrote, statusWrites) ==
            lastOp' = [op |-> "LoopsContactReconcile", c |-> c, branch |-> branch,
                       calls |-> calls, wrote |-> wrote, statusWrites |-> statusWrites,
                       changed |-> /\ branch \in {"create", "update", "none"}
                                   /\ ~aborted
                                   /\ s2 # contact]
    IN IF ~contact.exists
       THEN Done("gone", <<>>, FALSE, 0) /\ UNCHANGED <<contacts, loops>>
       ELSE IF NeedsFinalizer(contact.deleting, "loops" \in contact.finalizers)
       THEN /\ contacts' = [contacts EXCEPT ![c].finalizers =
                               IF writeOk THEN @ \cup {"loops"} ELSE @]
            /\ Done("addFinalizer", <<>>, writeOk, 0)
            /\ UNCHANGED loops
       ELSE IF contact.deleting /\ "loops" \in contact.finalizers
       THEN \* loopsContactFinalizer.Finalize, then removal of the finalizer
            /\ loops' = del.lp
            /\ contacts' = [contacts EXCEPT ![c] =
                  IF del.err = "error" \/ ~writeOk THEN @
                  ELSE [@ EXCEPT !.finalizers = @ \ {"loops"},
                                 !.exists = (contact.finalizers \ {"loops"}) # {}]]
            /\ Done("finalize",
                    <<[call |-> "deleteContact",
                       res |-> IF del.err = "none" THEN "deleted" ELSE del.err]>>,
                    del.err # "error" /\ writeOk, 0)
       ELSE IF aborted
       THEN /\ lp1.next <= MaxCreates + 1
            /\ loops' = lp1
            /\ Done(IF creating THEN "create" ELSE "update", <<>>, FALSE, 0)
            /\ UNCHANGED contacts
       ELSE /\ lp2.next <= MaxCreates + 1
            /\ loops' = lp2
            /\ contacts' = [contacts EXCEPT ![c] = IF writeOk THEN s2 ELSE @]
            /\ Done(IF creating THEN "create" ELSE IF updating THEN "update" ELSE "none",
                    IF addNl THEN <<[call |-> "updateMailingLists", res |-> nlOut]>> ELSE <<>>,
                    writeOk /\ s2 # contact,
                    IF StatusChanged(contact, s2) THEN 1 ELSE 0)

(***************************************************************************)
(* The contact-lifecycle webhook                                           *)
(***************************************************************************)
\* status.providerID of a Contact known to the provider
ContactProviderID(c) == IF c = "c1" THEN 1 ELSE 2

ContactProviderIDs == {ContactProviderID(c) : c \in ContactIds}

\* resend.allowedContactEvents
allowedContactEvents == {"contact.created", "contact.updated", "contact.deleted"}

ContactsByProviderIDUnfiltered(id) == {c \in ContactIds : contacts[c].exists}

\* List of Contacts with MatchingFields{contactStatusProviderIDIndexKey: id}
ContactsByProviderID(id) ==
    {c \in ContactIds : /\ contacts[c].exists
                        /\ contacts[c].providerID # NoID
                        /\ contacts[c].providerID = id}

\* the reason of the Updated condition of a Contact; ContactController writes
\* it with reason Updated, and updatePending says that the condition stands
\* with reason UpdatePending
ContactUpdatedReason(contact) ==
    IF contact.updatePending THEN "UpdatePending"
    ELSE IF contact.updatedGen = 0 THEN "Absent" ELSE "Updated"

\* the condition set for an event type without the check for a pending update
ContactAfterEventByTypeOnly(contact, eventType) ==
    IF eventType = "contact.created" THEN [contact EXCEPT !.resendReady = "True"]
    ELSE IF eventType = "contact.updated"
    THEN [contact EXCEPT !.updatedGen = contact.generation, !.updatePending = FALSE]
    ELSE [contact EXCEPT !.deleted = "True"]

\* NewResendContactWebhookV1: the condition set for an event type
ContactAfterEvent(contact, eventType) ==
    IF ContactUpdatedReason(contact) = "UpdatePending"
    THEN [contact EXCEPT !.updatedGen = contact.generation, !.updatePending = FALSE]
    ELSE IF eventType = "contact.created" THEN [contact EXCEPT !.resendReady = "True"]
    ELSE IF eventType = "contact.updated"
    THEN [contact EXCEPT !.updatedGen = contact.generation, !.updatePending = FALSE]
    ELSE [contact EXCEPT !.deleted = "True"]

\* The handler of NewResendContactWebhookV1 applied to a parsed event: the
\* answer and the store it leaves.  outcome as for HandleEmailEvent.
HandleContactEvent(eventType, id, outcome) ==
    LET found == ContactsByProviderID(id)
        c == CHOOSE x \in found : TRUE
        after == ContactAfterEvent(contacts[c], eventType)
    IN IF found = {}
       THEN [http |-> 200, found |-> FALSE, contacts |-> contacts]
       ELSE IF outcome = "writeFail"
       THEN [http |-> 500, found |-> TRUE, contacts |-> contacts]
       ELSE IF outcome = "eventFail"
       THEN [http |-> 500, found |-> TRUE, contacts |-> [contacts EXCEPT ![c] = after]]
       ELSE [http |-> 200, found |-> TRUE,
             contacts |-> [contacts EXCEPT ![c] = [after EXCEPT !.events = @ + 1]]]

\* one request on the contact-lifecycle path, past signature check and parsing
ContactWebhook(eventType, id, outcome) ==
    LET r == HandleContactEvent(eventType, id, outcome)
    IN /\ r.found => webhooks < MaxWebhooks
       /\ webhooks' = IF r.found THEN webhooks + 1 ELSE webhooks
       /\ contacts' = r.contacts
       /\ lastOp' = IF r.found
                    THEN [op |-> "ContactWebhook", type |-> eventType, id |-> id,
                          http |-> r.http]
                    ELSE [op |-> "ContactWebhook", id |-> id, http |-> r.http]

(***************************************************************************)
(* Confirmation of a membership deletion by the webhook receiver           *)
(***************************************************************************)
\* The receiver finds the membership by its ProviderID and records the
\* confirmed deletion as Deleted=True
MembershipDeletionConfirmed(m) ==
    /\ cgms[m].exists
    /\ cgms[m].providerID # NoID
    /\ cgms[m].deleted = "DeletePending"
    /\ cgms' = [cgms EXCEPT ![m].deleted = "True"]
    /\ lastOp' = [op |-> "MembershipDeletionConfirmed", m |-> m]

(***************************************************************************)
(* Deletion requests of clients                                            *)
(***************************************************************************)
\* Delete on a Contact: it gets its deletionTimestamp while it holds
\* finalizers, and leaves the store when it holds none
DeleteContactRequest(c) ==
    /\ contacts[c].exists
    /\ ~contacts[c].deleting
    /\ contacts' = [contacts EXCEPT ![c] =
          IF @.finalizers = {} THEN [@ EXCEPT !.exists = FALSE]
          ELSE [@ EXCEPT !.deleting = TRUE]]
    /\ lastOp' = [op |-> "DeleteContactRequest", c |-> c]

\* Delete on a ContactGroupMembership
DeleteMembershipRequest(m) ==
    /\ cgms[m].exists
    /\ ~cgms[m].deleting
    /\ cgms' = StoreDelete(cgms, {m})
    /\ lastOp' = [op |-> "DeleteMembershipRequest", m |-> m]

\* Delete on a ContactGroup
DeleteGroupRequest(g) ==
    /\ groups[g].exists
    /\ ~groups[g].deleting
    /\ groups' = [groups EXCEPT ![g] =
          IF ~@.finalizer THEN [@ EXCEPT !.exists = FALSE]
          ELSE [@ EXCEPT !.deleting = TRUE]]
    /\ lastOp' = [op |-> "DeleteGroupRequest", g |-> g]

(***************************************************************************)
(* Initial states                                                          *)
(***************************************************************************)
CreateIdentities == {<<"cgm", CgmGroup(m), CgmContact(m)>> : m \in CgmIds}
                        \cup {<<"loops", c>> : c \in ContactIds}

NewContact ==
    [exists |-> TRUE, deleting |-> FALSE, finalizers |-> {}, generation |-> 1,
     ready |-> "Absent", updatedGen |-> 0, updatePending |-> FALSE,
     loopsReady |-> "Absent", loopsGen |-> 0, loopsID |-> NoID, newsletter |-> "Absent",
     providerID |-> NoID, resendReady |-> "Absent", deleted |-> "Absent", events |-> 0]

\* the writers of the status of a Contact
Writers == {"contact", "loops", "webhook"}

\* no writer holds an object it read
NoReads ==
    [w \in Writers |-> [held |-> FALSE, c |-> "c1", obj |-> NewContact, ev |-> "none"]]

NewCgm ==
    [exists |-> TRUE, deleting |-> FALSE, finalizer |-> FALSE, providerID |-> NoID,
     ready |-> "Absent", updated |-> "Absent", deleted |-> "Absent",
     contactNs |-> "default", groupNs |-> "default"]

\* a ContactGroup already created on the provider
ReadyGroup(g) ==
    [exists |-> TRUE, deleting |-> FALSE, finalizer |-> TRUE, providerID |-> AudienceID(g),
     generation |-> 1, ready |-> "True", readyGen |-> 1, updated |-> "Absent",
     updatedGen |-> 0]

\* contact c1 with one membership in each of the two groups
InitCluster ==
    /\ contacts = [c \in ContactIds |-> [NewContact EXCEPT !.exists = (c = "c1")]]
    /\ groups = [g \in GroupIds |-> ReadyGroup(g)]
    /\ cgms = [m \in CgmIds |-> [NewCgm EXCEPT !.exists = (CgmContact(m) = "c1")]]
    /\ cgmrs = [r \in RemovalIds |-> FALSE]

InitProviders ==
    /\ audience = [entries |-> {}, next |-> 1]
    /\ resendGroups = {AudienceID(g) : g \in GroupIds}
    /\ loops = [entries |-> {}, next |-> 1, subscribed |-> {}]

\* SpecCascade starts from a settled cluster: contacts c1 and c2 created on
\* Loops, each with one membership in group g1 created on the provider, and
\* one ContactGroupMembershipRemoval naming c1 and g1
SettledContact(c) ==
    [exists |-> TRUE, deleting |-> FALSE, finalizers |-> {"contact", "loops"},
     generation |-> 1, ready |-> "True", updatedGen |-> 1, updatePending |-> FALSE,
     loopsReady |-> "Created", loopsGen |-> 1,
     loopsID |-> IF c = "c1" THEN 1 ELSE 2,
     newsletter |-> IF isNewsletterContact(c) THEN "True" ELSE "Absent",
     providerID |-> ContactProviderID(c), resendReady |-> "Absent", deleted |-> "Absent",
     events |-> 0]

SettledCgm(m) ==
    [exists |-> CgmGroup(m) = "g1", deleting |-> FALSE, finalizer |-> CgmGroup(m) = "g1",
     providerID |-> IF CgmGroup(m) # "g1" THEN NoID ELSE IF m = "m1" THEN 1 ELSE 2,
     ready |-> IF CgmGroup(m) = "g1" THEN "CreatePending" ELSE "Absent",
     updated |-> "Absent", deleted |-> "Absent",
     contactNs |-> "default", groupNs |-> "default"]

(***************************************************************************)
(* SpecEmail                                                               *)
(***************************************************************************)
IdempotencyKeys == {EmailUID(e) : e \in EmailIds} \cup EmailNames

InitEmail ==
    /\ emails = [e \in EmailIds |->
                   [uid |-> EmailUID(e), name |-> EmailName(e), priority |-> "normal",
                    providerID |-> NoID, delivered |-> NoCondition]]
    /\ emailPass = [e \in EmailIds |-> "none"]
    /\ sendCalls = [e \in EmailIds |-> <<>>]
    /\ resend = [ids |-> [k \in IdempotencyKeys |-> NoID],
                 msgs |-> [k \in IdempotencyKeys |-> 0],
                 next |-> 1]
    /\ k8sEvents = [e \in EmailIds |-> 0]
    /\ webhooks = 0

Init ==
    /\ InitEmail
    /\ InitCluster
    /\ InitProviders
    /\ createLog = [i \in CreateIdentities |-> <<>>]
    /\ inflight = NoReads
    /\ cgmrReady = [r \in RemovalIds |-> FALSE]
    /\ lastOp = [op |-> "none"]

DoEmailReconcile ==
    \E e \in EmailIds, depsOk \in BOOLEAN, outcome \in {"ok", "err", "lost"},
       writeOk \in BOOLEAN :
        /\ EmailReconcile(e, depsOk, outcome, writeOk)
        /\ UNCHANGED <<clusterVars, providerVars, createLog, inflight, cgmrReady>>

DoEmailWebhook ==
    \E t \in WebhookEventTypes, id \in DeliveryIDs \cup {UnknownID},
       outcome \in {"ok", "writeFail", "eventFail"} :
        /\ EmailWebhook(t, id, outcome)
        /\ UNCHANGED <<clusterVars, providerVars, createLog, inflight, cgmrReady>>

NextEmail ==
    \/ DoEmailReconcile
    \/ DoEmailWebhook

SpecEmail == Init /\ [][NextEmail]_vars

(***************************************************************************)
(* SpecMembership                                                          *)
(***************************************************************************)
\* the outcomes a pass can meet: a call the pass does not reach has no
\* outcome to choose, so that one value stands for all
OutcomesFor(reached, outcomes) ==
    IF reached THEN outcomes ELSE {CHOOSE o \in outcomes : TRUE}

\* the case of ContactGroupMembershipController.Reconcile an object is in
CgmCase(m) ==
    IF ~cgms[m].exists THEN "gone"
    ELSE IF cgms[m].deleting /\ cgms[m].finalizer THEN "finalize"
    ELSE IF NeedsFinalizer(cgms[m].deleting, cgms[m].finalizer) THEN "addFinalizer"
    ELSE IF \/ ~RefersToContact(cgms[m], m) \/ ~contacts[CgmContact(m)].exists
            \/ ~RefersToGroup(cgms[m], m) \/ ~groups[CgmGroup(m)].exists
    THEN "depsMissing"
    ELSE IF cgms[m].ready = "Absent" THEN "create"
    ELSE IF cgms[m].updated = "UpdateRequested" THEN "update"
    ELSE "none"

DoCGMReconcile ==
    \E m \in CgmIds :
    \E probeOut \in OutcomesFor(CgmCase(m) = "create", {"ok", "err"}),
       createOut \in OutcomesFor(CgmCase(m) \in {"create", "update"}, {"ok", "err"}),
       delOut \in OutcomesFor(CgmCase(m) \in {"finalize", "update"}, {"ok", "err", "refused"}),
       writeOk \in OutcomesFor(CgmCase(m) \notin {"gone", "depsMissing", "none"}, BOOLEAN) :
        /\ CGMReconcile(m, probeOut, createOut, delOut, writeOk)
        /\ UNCHANGED <<emailVars, contacts, groups, cgmrs, resendGroups, loops, createLog, inflight, cgmrReady>>

DoContactReconcile ==
    \E c \in ContactIds :
    \E failAt \in MembershipsOfContact(cgms, c) \cup {"none"},
       writeOk \in OutcomesFor(contacts[c].exists, BOOLEAN) :
        /\ ContactReconcile(c, failAt, writeOk)
        /\ UNCHANGED <<emailVars, providerVars, createLog, inflight, cgmrReady>>

DoContactSpecUpdate ==
    \E c \in ContactIds :
        /\ ContactSpecUpdate(c)
        /\ UNCHANGED <<emailVars, providerVars, createLog, inflight, cgmrReady>>

NextMembership ==
    \/ DoCGMReconcile
    \/ DoContactReconcile
    \/ DoContactSpecUpdate

SpecMembership == Init /\ [][NextMembership]_vars

(***************************************************************************)
(* SpecCascade: deletion of contacts and contact groups                    *)
(***************************************************************************)
SettledCluster ==
    /\ contacts = [c \in ContactIds |-> SettledContact(c)]
    /\ groups = [g \in GroupIds |-> [ReadyGroup(g) EXCEPT !.exists = (g = "g1")]]
    /\ cgms = [m \in CgmIds |-> SettledCgm(m)]
    /\ cgmrs = [r \in RemovalIds |-> TRUE]
    /\ audience = [entries |-> {[id |-> cgms[m].providerID, group |-> AudienceID("g1"),
                                 email |-> ContactEmail(CgmContact(m), 1)] :
                                   m \in {x \in CgmIds : CgmGroup(x) = "g1"}},
                   next |-> 3]
    /\ resendGroups = {AudienceID("g1")}
    /\ loops = [entries |-> {[id |-> contacts[c].loopsID, userId |-> ContactUID(c)] :
                                 c \in ContactIds},
                next |-> 3,
                subscribed |-> {ContactUID(c) : c \in {x \in ContactIds : isNewsletterContact(x)}}]

InitCascade ==
    /\ InitEmail
    /\ SettledCluster
    /\ createLog = [i \in CreateIdentities |-> <<>>]
    /\ inflight = NoReads
    /\ cgmrReady = [r \in RemovalIds |-> FALSE]
    /\ lastOp = [op |-> "none"]

\* the case of ContactGroupController.Reconcile an object is in
GroupCase(g) ==
    IF ~groups[g].exists THEN "gone"
    ELSE IF NeedsFinalizer(groups[g].deleting, groups[g].finalizer) THEN "addFinalizer"
    ELSE IF groups[g].deleting /\ groups[g].finalizer THEN "finalize"
    ELSE IF groups[g].ready = "Absent" THEN "create"
    ELSE IF groups[g].readyGen # groups[g].generation THEN "update"
    ELSE "none"

DoContactGroupReconcile ==
    \E g \in GroupIds :
    \E failAt \in OutcomesFor(GroupCase(g) = "finalize",
                              {"none"} \cup MembershipsOfGroup(cgms, g)),
       getOut \in OutcomesFor(GroupCase(g) \in {"finalize", "create"}, {"ok", "err"}),
       delOut \in OutcomesFor(GroupCase(g) = "finalize", {"ok", "err", "refused"}),
       writeOk \in OutcomesFor(GroupCase(g) \notin {"gone", "none"}, BOOLEAN) :
        /\ ContactGroupReconcile(g, failAt, getOut, delOut, writeOk)
        /\ UNCHANGED <<emailVars, contacts, audience, loops, createLog, inflight, cgmrReady>>

\* the case of LoopsContactController.Reconcile an object is in
LoopsCase(c) ==
    IF ~contacts[c].exists THEN "gone"
    ELSE IF NeedsFinalizer(contacts[c].deleting, "loops" \in contacts[c].finalizers)
    THEN "addFinalizer"
    ELSE IF contacts[c].deleting /\ "loops" \in contacts[c].finalizers THEN "finalize"
    ELSE IF contacts[c].loopsReady \in {"Absent", "NotCreated"} THEN "create"
    ELSE IF contacts[c].loopsGen # contacts[c].generation THEN "update"
    ELSE "none"

DoLoopsContactReconcile ==
    \E c \in ContactIds :
    \E findOut \in OutcomesFor(LoopsCase(c) \in {"create", "update"}, {"ok", "err"}),
       out \in OutcomesFor(LoopsCase(c) \in {"finalize", "create", "update"},
                           {"ok", "err", "conflict"}),
       nlOut \in OutcomesFor(/\ LoopsCase(c) \in {"create", "update", "none"}
                             /\ WantsNewsletter(c)
                             /\ ~NewsLetterAlreadyAdded(contacts[c]), {"ok", "err"}),
       writeOk \in OutcomesFor(LoopsCase(c) # "gone", BOOLEAN) :
        /\ LoopsContactReconcile(c, findOut, out, nlOut, writeOk)
        /\ UNCHANGED <<emailVars, groups, cgms, cgmrs, audience, resendGroups, createLog, inflight, cgmrReady>>

DoDeleteContactRequest ==
    \E c \in ContactIds :
        /\ DeleteContactRequest(c)
        /\ UNCHANGED <<emailVars, groups, cgms, cgmrs, providerVars, createLog, inflight, cgmrReady>>

DoDeleteGroupRequest ==
    \E g \in GroupIds :
        /\ DeleteGroupRequest(g)
        /\ UNCHANGED <<emailVars, contacts, cgms, cgmrs, providerVars, createLog, inflight, cgmrReady>>

DoMembershipDeletionConfirmed ==
    \E m \in CgmIds :
        /\ MembershipDeletionConfirmed(m)
        /\ UNCHANGED <<emailVars, contacts, groups, cgmrs, providerVars, createLog, inflight, cgmrReady>>

NextCascade ==
    \/ DoDeleteContactRequest
    \/ DoDeleteGroupRequest
    \/ DoContactGroupReconcile
    \/ DoContactReconcile
    \/ DoLoopsContactReconcile
    \/ DoCGMReconcile

SpecCascade == InitCascade /\ [][NextCascade]_vars

(***************************************************************************)
(* SpecGuard: deletion of single memberships and its confirmation          *)
(***************************************************************************)
DoDeleteMembershipRequest ==
    \E m \in CgmIds :
        /\ DeleteMembershipRequest(m)
        /\ UNCHANGED <<emailVars, contacts, groups, cgmrs, providerVars, createLog, inflight, cgmrReady>>

NextGuard ==
    \/ DoDeleteMembershipRequest
    \/ DoCGMReconcile
    \/ DoMembershipDeletionConfirmed

SpecGuard == InitCascade /\ [][NextGuard]_vars

(***************************************************************************)
(* SpecWebhook: the delivery and the contact-lifecycle webhook paths       *)
(***************************************************************************)
\* Email e1 was sent and its ProviderID persisted; Email e2 is new
InitWebhook ==
    /\ emails = [e \in EmailIds |->
                   [uid |-> EmailUID(e), name |-> EmailName(e), priority |-> "normal",
                    providerID |-> IF e = "e1" THEN 1 ELSE NoID,
                    delivered |-> IF e = "e1" THEN PendingCondition ELSE NoCondition]]
    /\ emailPass = [e \in EmailIds |-> IF e = "e1" THEN "done" ELSE "none"]
    /\ sendCalls = [e \in EmailIds |->
                      IF e = "e1" THEN <<[key |-> EmailUID(e), id |-> 1]>> ELSE <<>>]
    /\ resend = [ids |-> [k \in IdempotencyKeys |-> IF k = EmailUID("e1") THEN 1 ELSE NoID],
                 msgs |-> [k \in IdempotencyKeys |-> IF k = EmailUID("e1") THEN 1 ELSE 0],
                 next |-> 2]
    /\ k8sEvents = [e \in EmailIds |-> 0]
    /\ webhooks = 0
    /\ SettledCluster
    /\ createLog = [i \in CreateIdentities |-> <<>>]
    /\ inflight = NoReads
    /\ cgmrReady = [r \in RemovalIds |-> FALSE]
    /\ lastOp = [op |-> "none"]

(***************************************************************************)
(* SpecRedelivery: a delivery event racing the Email reconciler, with the  *)
(* provider redelivering the event until it is answered 200.  Failures are *)
(* finite: a call may fail only while the bounds leave room for the        *)
(* successful call of every Email still waiting.                           *)
(***************************************************************************)
\* the Emails whose ProviderID is not persisted yet
Unsent == {e \in EmailIds : emails[e].providerID = NoID}

\* the Emails whose Delivered condition does not show the delivery yet
Undelivered == {e \in EmailIds : emails[e].delivered # [status |-> "True", reason |-> "Delivered"]}

\* EmailController.Reconcile for Email e, requeued until it succeeds
RetriedReconcile(e) ==
    \E outcome \in {"ok", "err", "lost"}, writeOk \in BOOLEAN :
        /\ (outcome = "ok" /\ writeOk) \/ SendCallsIssued + Cardinality(Unsent) < MaxSends
        /\ EmailReconcile(e, TRUE, outcome, writeOk)
        /\ UNCHANGED <<clusterVars, providerVars, createLog, inflight, cgmrReady>>

\* the provider posts the email.delivered event of the message it accepted
\* for Email e, and posts it again until the receiver answers 200
Redelivery(e) ==
    \E outcome \in {"ok", "writeFail", "eventFail"} :
        /\ resend.ids[IdempotencyKey(emails[e])] # NoID
        /\ e \in Undelivered
        /\ outcome = "ok" \/ webhooks + Cardinality(Undelivered) < MaxWebhooks
        /\ EmailWebhook("email.delivered", resend.ids[IdempotencyKey(emails[e])], outcome)
        /\ UNCHANGED <<clusterVars, providerVars, createLog, inflight, cgmrReady>>

NextRedelivery ==
    \/ \E e \in EmailIds : RetriedReconcile(e)
    \/ \E e \in EmailIds : Redelivery(e)

SpecRedelivery ==
    /\ Init
    /\ [][NextRedelivery]_vars
    /\ \A e \in EmailIds : WF_vars(RetriedReconcile(e)) /\ WF_vars(Redelivery(e))

DoContactWebhook ==
    \E t \in allowedContactEvents, id \in ContactProviderIDs \cup {UnknownID},
       outcome \in {"ok", "writeFail", "eventFail"} :
        /\ ContactWebhook(t, id, outcome)
        /\ UNCHANGED <<emails, emailPass, sendCalls, resend, k8sEvents,
                       groups, cgms, cgmrs, providerVars, createLog, inflight, cgmrReady>>

NextWebhook ==
    \/ DoEmailWebhook
    \/ DoContactWebhook

SpecWebhook == InitWebhook /\ [][NextWebhook]_vars

(***************************************************************************)
(* SpecReceiver: Webhook.ServeHTTP in front of the two handlers            *)
(***************************************************************************)
Methods == {"POST", "GET"}

\* the svix headers of a request: signed with the shared secret, signed with
\* another one, or absent
Signatures == {"valid", "invalid", "missing"}

\* a body that is not JSON
NotJSON == [json |-> FALSE, type |-> "", data |-> FALSE, id |-> NoID]

BodyTypes == {"email.delivered", "contact.deleted", "user.created"}

\* a JSON body: the type of its envelope, whether its data block decodes into
\* the base block of a schema, and the id the data block carries
JSONBodies ==
    {[json |-> TRUE, type |-> t, data |-> d, id |-> i] :
        t \in BodyTypes, d \in BOOLEAN, i \in {1, UnknownID}}

EmailBody == [json |-> TRUE, type |-> "email.delivered", data |-> TRUE, id |-> 1]

ContactBody == [json |-> TRUE, type |-> "contact.deleted", data |-> TRUE, id |-> 1]

\* every request past the signature check carries every body; a request that
\* ends earlier carries one of three
Requests ==
    {[method |-> m, sig |-> g, readOk |-> r, body |-> b] :
        m \in Methods, g \in Signatures, r \in BOOLEAN,
        b \in {NotJSON, EmailBody, ContactBody}}
    \cup {[method |-> "POST", sig |-> "valid", readOk |-> TRUE, body |-> b] : b \in JSONBodies}

MethodAllowedAny(method) == TRUE

\* r.Method != http.MethodPost
MethodAllowed(method) == method = "POST"

svixVerifyAny(sig) == TRUE

\* wh.svix.Verify(body, r.Header) returned no error
svixVerify(sig) == sig = "valid"

ParseEmailEventNever(body) == [ok |-> FALSE, type |-> "", id |-> NoID]

\* resend.ParseEmailEvent
ParseEmailEvent(body) ==
    IF body.json /\ body.type \in allowedEvents /\ body.data
    THEN [ok |-> TRUE, type |-> body.type, id |-> body.id]
    ELSE [ok |-> FALSE, type |-> "", id |-> NoID]

\* resend.ParseContactEvent
ParseContactEvent(body) ==
    IF body.json /\ body.type \in allowedContactEvents /\ body.data
    THEN [ok |-> TRUE, type |-> body.type, id |-> body.id]
    ELSE [ok |-> FALSE, type |-> "", id |-> NoID]

\* what ServeHTTP does with a request, in order, up to the return
ServeSteps(req) ==
    IF ~MethodAllowed(req.method) THEN <<"method">>
    ELSE IF ~req.readOk THEN <<"method", "read">>
    ELSE IF ~svixVerify(req.sig) THEN <<"method", "read", "verify">>
    ELSE IF ParseEmailEvent(req.body).ok
         THEN <<"method", "read", "verify", "parseEmail", "handleEmail">>
    ELSE IF ParseContactEvent(req.body).ok
         THEN <<"method", "read", "verify", "parseEmail", "parseContact", "handleContact">>
    ELSE <<"method", "read", "verify", "parseEmail", "parseContact">>

Last(seq) == seq[Len(seq)]

\* the two Webhooks of the manager, each with its Handler
Endpoints == {"emails", "contacts"}

\* One request served.  The Handler of an endpoint reads the event of its own
\* schema from the Request; handed the other one it dereferences nil, and the
\* deferred recover answers 500.
ServeHTTP(endpoint, req, outcome) ==
    LET steps == ServeSteps(req)
        end == Last(steps)
        em == ParseEmailEvent(req.body)
        ct == ParseContactEvent(req.body)
        he == HandleEmailEvent(em.type, em.id, outcome)
        hc == HandleContactEvent(ct.type, ct.id, outcome)
        emailRuns == end = "handleEmail" /\ endpoint = "emails"
        contactRuns == end = "handleContact" /\ endpoint = "contacts"
        counted == (emailRuns /\ he.found) \/ (contactRuns /\ hc.found)
        http == IF end = "method" THEN 405
                ELSE IF end = "read" THEN 500
                ELSE IF end = "verify" THEN 401
                ELSE IF end = "parseContact" THEN 400
                ELSE IF emailRuns THEN he.http
                ELSE IF contactRuns THEN hc.http
                ELSE 500
    IN /\ counted => webhooks < MaxWebhooks
       /\ webhooks' = IF counted THEN webhooks + 1 ELSE webhooks
       /\ emails' = IF emailRuns THEN he.emails ELSE emails
       /\ k8sEvents' = IF emailRuns THEN he.k8sEvents ELSE k8sEvents
       /\ contacts' = IF contactRuns THEN hc.contacts ELSE contacts
       /\ lastOp' = [op |-> "ServeHTTP", endpoint |-> endpoint, req |-> req,
                     steps |-> steps, allow |-> IF end = "method" THEN "POST" ELSE "",
                     http |-> http]
       /\ UNCHANGED <<emailPass, sendCalls, resend, groups, cgms, cgmrs,
                      providerVars, createLog, inflight, cgmrReady>>

\* the outcome of the handler's writes matters only when a handler runs
DoServeHTTP ==
    \E endpoint \in Endpoints, req \in Requests :
        \E outcome \in OutcomesFor(Last(ServeSteps(req)) \in {"handleEmail", "handleContact"},
                                   {"ok", "writeFail", "eventFail"}) :
            ServeHTTP(endpoint, req, outcome)

NextReceiver == DoServeHTTP

SpecReceiver == InitWebhook /\ [][NextReceiver]_vars

(***************************************************************************)
(* SpecCondition: delivery events of every allowed type, one after another *)
(***************************************************************************)
DoEmailEvent ==
    \E t \in allowedEvents, id \in DeliveryIDs \cup {UnknownID},
       outcome \in {"ok", "writeFail", "eventFail"} :
        /\ EmailWebhook(t, id, outcome)
        /\ UNCHANGED <<clusterVars, providerVars, createLog, inflight, cgmrReady>>

NextCondition == DoEmailEvent

SpecCondition == InitWebhook /\ [][NextCondition]_vars

(***************************************************************************)
(* SpecAggregate: the ContactGroupMembershipController that aggregates the *)
(* readiness of the two providers (Loops and Resend) into Ready            *)
(***************************************************************************)
\* the status values of a provider sub-condition; "Absent": not in the list
SubConditions == {"Absent", "True", "False"}

\* a ContactGroupMembership with the sub-conditions of the two providers;
\* notReady is the message of a Ready = False condition, entry by entry
AggregatedCgm ==
    [exists |-> TRUE, deleting |-> FALSE, finalizer |-> TRUE, providerID |-> NoID,
     ready |-> "Absent", notReady |-> <<>>, loopsReady |-> "Absent",
     resendReady |-> "Absent", updated |-> "Absent", deleted |-> "Absent",
     contactNs |-> "default", groupNs |-> "default"]

NotReadyEntry(provider, cond) ==
    IF cond = "Absent" THEN <<[provider |-> provider, why |-> "condition missing"]>>
    ELSE IF cond # "True" THEN <<[provider |-> provider, why |-> "reason and message"]>>
    ELSE <<>>

verifyReadyEitherProvider(cgm) ==
    IF cgm.loopsReady = "True" \/ cgm.resendReady = "True"
    THEN [cgm EXCEPT !.ready = "True", !.notReady = <<>>]
    ELSE [cgm EXCEPT !.ready = "False",
                     !.notReady = NotReadyEntry("Loops", cgm.loopsReady)
                                     \o NotReadyEntry("Resend", cgm.resendReady)]

\* ContactGroupMembershipController.verifyContactGroupMembershipReadyCondition
verifyContactGroupMembershipReadyCondition(cgm) ==
    IF cgm.loopsReady = "True" /\ cgm.resendReady = "True"
    THEN [cgm EXCEPT !.ready = "True", !.notReady = <<>>]
    ELSE [cgm EXCEPT !.ready = "False",
                     !.notReady = NotReadyEntry("Loops", cgm.loopsReady)
                                     \o NotReadyEntry("Resend", cgm.resendReady)]

\* contactGroupMembershipFinalizer.Finalize of this controller: the provider
\* delete ends the guard
AggregatedFinalize(cgm, c, g, delOut) ==
    LET d == DeleteContactGroupMembershipIdempotent(audience, groups[g].providerID,
                                                    cgm.providerID, delOut)
    IN IF \/ cgm.groupNs # GroupNamespace(g) \/ ~groups[g].exists
          \/ cgm.contactNs # ContactNamespace(c) \/ ~contacts[c].exists
       THEN [done |-> FALSE, aud |-> audience]
       ELSE IF d.err = "NotFound" THEN [done |-> TRUE, aud |-> d.aud]
       ELSE IF d.err # "none" \/ ~d.deleted THEN [done |-> FALSE, aud |-> d.aud]
       ELSE [done |-> TRUE, aud |-> d.aud]

\* ContactGroupMembershipController.Reconcile of this controller, one pass
AggregatedReconcile(m, probeOut, createOut, delOut, writeOk) ==
    LET cgm == cgms[m]
        c == CgmContact(m)
        g == CgmGroup(m)
        email == ContactEmail(c, contacts[c].generation)
        fin == AggregatedFinalize(cgm, c, g, delOut)
        cr == CreateContactGroupMembershipIdempotent(audience, groups[g].providerID, email,
                                                     probeOut, createOut)
        created == [cgm EXCEPT !.providerID = cr.id, !.resendReady = "True"]
        updated == [cgm EXCEPT !.providerID = cr.id, !.updated = "Updated"]
        Write(computed) == IF computed # cgm /\ writeOk THEN computed ELSE cgm
        Done(branch, computed, wrote) ==
            lastOp' = [op |-> "AggregatedReconcile", m |-> m, branch |-> branch,
                       read |-> cgm, computed |-> computed, wrote |-> wrote]
    IN IF ~cgm.exists
       THEN Done("gone", cgm, FALSE) /\ UNCHANGED <<cgms, audience>>
       ELSE IF cgm.deleting /\ cgm.finalizer
       THEN /\ audience' = fin.aud
            /\ cgms' = [cgms EXCEPT ![m] =
                   IF fin.done /\ writeOk THEN [cgm EXCEPT !.exists = FALSE, !.finalizer = FALSE]
                   ELSE cgm]
            /\ Done("finalize", cgm, FALSE)
       ELSE IF NeedsFinalizer(cgm.deleting, cgm.finalizer)
       THEN /\ cgms' = [cgms EXCEPT ![m].finalizer = writeOk]
            /\ Done("addFinalizer", cgm, FALSE)
            /\ UNCHANGED audience
       ELSE IF ~RefersToContact(cgm, m) \/ ~contacts[c].exists
               \/ ~RefersToGroup(cgm, m) \/ ~groups[g].exists
       THEN Done("depsMissing", cgm, FALSE) /\ UNCHANGED <<cgms, audience>>
       ELSE IF cgm.ready = "Absent" \/ cgm.updated = "UpdateRequested"
       THEN /\ cr.aud.next <= MaxCreates + 1
            /\ audience' = cr.aud
            /\ IF cr.err # "none"
               THEN /\ Done("providerError", cgm, FALSE)
                    /\ UNCHANGED cgms
               ELSE LET computed == verifyContactGroupMembershipReadyCondition(
                                        IF cgm.ready = "Absent" THEN created ELSE updated)
                    IN /\ cgms' = [cgms EXCEPT ![m] = Write(computed)]
                       /\ Done(IF cgm.ready = "Absent" THEN "create" ELSE "update",
                               computed, computed # cgm)
       ELSE LET computed == verifyContactGroupMembershipReadyCondition(cgm)
            IN /\ cgms' = [cgms EXCEPT ![m] = Write(computed)]
               /\ Done("none", computed, computed # cgm)
               /\ UNCHANGED audience

\* the Loops side reports the readiness of the membership in its
\* sub-condition LoopsContactGroupMembershipReady
LoopsMembershipReported(m, v) ==
    /\ cgms[m].exists
    /\ cgms[m].loopsReady # v
    /\ cgms' = [cgms EXCEPT ![m].loopsReady = v]
    /\ lastOp' = [op |-> "LoopsMembershipReported", m |-> m]
    /\ UNCHANGED audience

\* membership m1 of contact c1 in group g1, reconciled or not, with every
\* combination of sub-conditions the two providers can have left
InitAggregate ==
    /\ InitEmail
    /\ contacts = [c \in ContactIds |-> [NewContact EXCEPT !.exists = (c = "c1")]]
    /\ groups = [g \in GroupIds |-> ReadyGroup(g)]
    /\ \E rd \in SubConditions, lo \in SubConditions, re \in SubConditions,
          up \in {"Absent", "UpdateRequested"} :
          /\ rd = "Absent" => re = "Absent" /\ up = "Absent"
          /\ cgms = [m \in CgmIds |->
                       IF m = "m1"
                       THEN [AggregatedCgm EXCEPT !.ready = rd, !.loopsReady = lo,
                                                  !.resendReady = re, !.updated = up]
                       ELSE [AggregatedCgm EXCEPT !.exists = FALSE, !.finalizer = FALSE]]
    /\ cgmrs = [r \in RemovalIds |-> FALSE]
    /\ InitProviders
    /\ createLog = [i \in CreateIdentities |-> <<>>]
    /\ inflight = NoReads
    /\ cgmrReady = [r \in RemovalIds |-> FALSE]
    /\ lastOp = [op |-> "none"]

AggregatedCase(m) ==
    IF ~cgms[m].exists THEN "gone"
    ELSE IF cgms[m].deleting /\ cgms[m].finalizer THEN "finalize"
    ELSE IF NeedsFinalizer(cgms[m].deleting, cgms[m].finalizer) THEN "addFinalizer"
    ELSE IF cgms[m].ready = "Absent" \/ cgms[m].updated = "UpdateRequested" THEN "provider"
    ELSE "none"

DoAggregatedReconcile ==
    \E m \in CgmIds :
    \E probeOut \in OutcomesFor(AggregatedCase(m) = "provider", {"ok", "err"}),
       createOut \in OutcomesFor(AggregatedCase(m) = "provider", {"ok", "err"}),
       delOut \in OutcomesFor(AggregatedCase(m) = "finalize", {"ok", "err", "refused"}),
       writeOk \in OutcomesFor(AggregatedCase(m) # "gone", BOOLEAN) :
        /\ AggregatedReconcile(m, probeOut, createOut, delOut, writeOk)
        /\ UNCHANGED <<emailVars, contacts, groups, cgmrs, resendGroups, loops, createLog, inflight, cgmrReady>>

DoLoopsMembershipReported ==
    \E m \in CgmIds, v \in {"True", "False"} :
        /\ LoopsMembershipReported(m, v)
        /\ UNCHANGED <<emailVars, contacts, groups, cgmrs, resendGroups, loops, createLog, inflight, cgmrReady>>

NextAggregate ==
    \/ DoAggregatedReconcile
    \/ DoLoopsMembershipReported
    \/ DoDeleteMembershipRequest

SpecAggregate == InitAggregate /\ [][NextAggregate]_vars

(***************************************************************************)
(* SpecStatus: the reconcilers of Contact, ContactGroup and                *)
(* ContactGroupMembership from creation on, with spec edits                *)
(***************************************************************************)
\* a ContactGroup no pass has seen yet
NewGroup ==
    [exists |-> TRUE, deleting |-> FALSE, finalizer |-> FALSE, providerID |-> "",
     generation |-> 1, ready |-> "Absent", readyGen |-> 0, updated |-> "Absent",
     updatedGen |-> 0]

\* contact c1, group g1 and the membership m1 of c1 in g1, all new
InitStatus ==
    /\ InitEmail
    /\ contacts = [c \in ContactIds |-> [NewContact EXCEPT !.exists = (c = "c1")]]
    /\ groups = [g \in GroupIds |-> [NewGroup EXCEPT !.exists = (g = "g1")]]
    /\ cgms = [m \in CgmIds |-> [NewCgm EXCEPT !.exists = (m = "m1")]]
    /\ cgmrs = [r \in RemovalIds |-> FALSE]
    /\ audience = [entries |-> {}, next |-> 1]
    /\ resendGroups = {}
    /\ loops = [entries |-> {}, next |-> 1, subscribed |-> {}]
    /\ createLog = [i \in CreateIdentities |-> <<>>]
    /\ inflight = NoReads
    /\ cgmrReady = [r \in RemovalIds |-> FALSE]
    /\ lastOp = [op |-> "none"]

DoGroupSpecUpdate ==
    \E g \in GroupIds :
        /\ GroupSpecUpdate(g)
        /\ UNCHANGED <<emailVars, audience, loops, createLog, inflight, cgmrReady>>

NextStatus ==
    \/ DoContactReconcile
    \/ DoContactGroupReconcile
    \/ DoCGMReconcile
    \/ DoContactSpecUpdate
    \/ DoGroupSpecUpdate

SpecStatus == InitStatus /\ [][NextStatus]_vars

(***************************************************************************)
(* SpecWrites: every pass that writes the status of a Contact or of a      *)
(* ContactGroupMembership, the deletion guard of the membership included   *)
(***************************************************************************)
\* contact c1 and its membership m1 in the group g1, both new
InitWrites ==
    /\ InitEmail
    /\ contacts = [c \in ContactIds |-> [NewContact EXCEPT !.exists = (c = "c1")]]
    /\ groups = [g \in GroupIds |-> [ReadyGroup(g) EXCEPT !.exists = (g = "g1")]]
    /\ cgms = [m \in CgmIds |-> [NewCgm EXCEPT !.exists = (m = "m1")]]
    /\ cgmrs = [r \in RemovalIds |-> FALSE]
    /\ audience = [entries |-> {}, next |-> 1]
    /\ resendGroups = {AudienceID("g1")}
    /\ loops = [entries |-> {}, next |-> 1, subscribed |-> {}]
    /\ createLog = [i \in CreateIdentities |-> <<>>]
    /\ inflight = NoReads
    /\ cgmrReady = [r \in RemovalIds |-> FALSE]
    /\ lastOp = [op |-> "none"]

NextWrites ==
    \/ DoContactReconcile
    \/ DoCGMReconcile
    \/ DoLoopsContactReconcile
    \/ DoDeleteMembershipRequest

SpecWrites == InitWrites /\ [][NextWrites]_vars

(***************************************************************************)
(* SpecConflict: ContactController, LoopsContactController and the contact *)
(* webhook writing the status of one Contact, each reading the object in   *)
(* one step and writing it back in a later one                             *)
(***************************************************************************)
\* status.conditions of a Contact
ConditionFields ==
    {"ready", "updatedGen", "loopsReady", "loopsGen", "newsletter", "resendReady", "deleted",
     "updatePending"}

\* what the resourceVersion of a Contact stands for: every write of the object
\* changes it, the Events created next to the object do not
Versioned(contact) == [contact EXCEPT !.events = 0]

\* Client.Status().Update: the write carries the resourceVersion that was read
\* and is rejected when the stored object has another one
StatusUpdate(stored, read, computed) ==
    IF Versioned(stored) # Versioned(read)
    THEN [obj |-> stored, res |-> "conflict"]
    ELSE [obj |-> computed, res |-> "written"]

\* Client.Status().Patch with client.MergeFrom(original): a JSON merge patch of
\* the difference between the object read and the object in memory, carrying
\* no resourceVersion; the conditions array is replaced as a whole
StatusPatch(stored, original, modified) ==
    LET conditionsDiffer == \E f \in ConditionFields : original[f] # modified[f]
    IN [obj |-> [f \in DOMAIN stored |->
                    IF f \in ConditionFields /\ conditionsDiffer THEN modified[f]
                    ELSE IF f = "loopsID" /\ original.loopsID # modified.loopsID
                    THEN modified.loopsID
                    ELSE stored[f]],
        res |-> "patched"]

\* the status ContactController.Reconcile computes for a Contact without
\* memberships
ContactComputed(contact) ==
    IF contact.ready = "Absent" THEN [contact EXCEPT !.ready = "True"]
    ELSE IF ContactNeedsUpdate(contact)
    THEN [contact EXCEPT !.updatedGen = contact.generation, !.updatePending = FALSE]
    ELSE contact

\* the status LoopsContactController.Reconcile computes, cr and upErr being
\* the results of createContact and updateContact
LoopsComputed(contact, cr, upErr) ==
    IF contact.loopsReady \in {"Absent", "NotCreated"}
    THEN IF cr.err = "Conflict"
         THEN [contact EXCEPT !.loopsReady = "NotCreated", !.loopsGen = contact.generation]
         ELSE [contact EXCEPT !.loopsReady = "Created", !.loopsGen = contact.generation,
                              !.loopsID = cr.id]
    ELSE IF contact.loopsGen # contact.generation
    THEN [contact EXCEPT !.loopsReady = IF upErr = "none" THEN "Updated" ELSE "NotUpdated",
                         !.loopsGen = contact.generation]
    ELSE contact

\* Client.Get / Client.List at the start of a pass or of a webhook request
ReadContact(w, c, ev) ==
    /\ ~inflight[w].held
    /\ contacts[c].exists
    /\ ~contacts[c].deleting
    /\ w = "webhook" => contacts[c].providerID # NoID /\ webhooks < MaxWebhooks
    /\ webhooks' = IF w = "webhook" THEN webhooks + 1 ELSE webhooks
    /\ inflight' = [inflight EXCEPT ![w] = [held |-> TRUE, c |-> c, obj |-> contacts[c],
                                            ev |-> ev]]
    /\ lastOp' = [op |-> "ReadContact", w |-> w, c |-> c]
    /\ UNCHANGED <<emails, emailPass, sendCalls, resend, k8sEvents, clusterVars,
                   providerVars, createLog, cgmrReady>>

\* the rest of the pass or request: the provider call, then the status write
WriteContact(w, findOut, out) ==
    LET c == inflight[w].c
        read == inflight[w].obj
        stored == contacts[c]
        creating == read.loopsReady \in {"Absent", "NotCreated"}
        updating == ~creating /\ read.loopsGen # read.generation
        cr == createContact(loops, ContactUID(c), findOut, out)
        upErr == updateContact(loops, ContactUID(c), findOut, out)
        aborted == \/ creating /\ cr.err = "error"
                   \/ updating /\ upErr = "error"
        computed == IF w = "contact" THEN ContactComputed(read)
                    ELSE IF w = "loops" THEN LoopsComputed(read, cr, upErr)
                    ELSE ContactAfterEvent(read, inflight[w].ev)
        r == IF w = "loops"
             THEN IF aborted THEN [obj |-> stored, res |-> "aborted"]
                  ELSE IF ~StatusChanged(read, computed)
                  THEN [obj |-> stored, res |-> "unchanged"]
                  ELSE StatusPatch(stored, read, computed)
             ELSE IF w = "contact" /\ ~StatusChanged(read, computed)
             THEN [obj |-> stored, res |-> "unchanged"]
             ELSE StatusUpdate(stored, read, computed)
    IN /\ inflight[w].held
       /\ contacts[c].exists
       /\ w = "loops" /\ creating => cr.lp.next <= MaxCreates + 1
       /\ loops' = IF w = "loops" /\ creating THEN cr.lp ELSE loops
       /\ contacts' = [contacts EXCEPT ![c] =
             IF w = "webhook" /\ r.res = "written"
             THEN [r.obj EXCEPT !.events = stored.events + 1]
             ELSE r.obj]
       /\ inflight' = [inflight EXCEPT ![w] = NoReads[w]]
       /\ lastOp' = [op |-> "WriteContact", w |-> w, c |-> c, res |-> r.res]
       /\ UNCHANGED <<emailVars, groups, cgms, cgmrs, audience, resendGroups, createLog, cgmrReady>>

\* contact c1 holds its finalizers and is known to the provider; no pass has
\* written a condition yet
InitConflict ==
    /\ InitEmail
    /\ contacts = [c \in ContactIds |->
                      [NewContact EXCEPT !.exists = (c = "c1"),
                                         !.finalizers = {"contact", "loops"},
                                         !.providerID = ContactProviderID(c)]]
    /\ groups = [g \in GroupIds |-> [NewGroup EXCEPT !.exists = FALSE]]
    /\ cgms = [m \in CgmIds |-> [NewCgm EXCEPT !.exists = FALSE]]
    /\ cgmrs = [r \in RemovalIds |-> FALSE]
    /\ audience = [entries |-> {}, next |-> 1]
    /\ resendGroups = {}
    /\ loops = [entries |-> {}, next |-> 1, subscribed |-> {}]
    /\ createLog = [i \in CreateIdentities |-> <<>>]
    /\ inflight = NoReads
    /\ cgmrReady = [r \in RemovalIds |-> FALSE]
    /\ lastOp = [op |-> "none"]

DoReadContact ==
    \E w \in Writers, c \in ContactIds, ev \in allowedContactEvents \cup {"none"} :
        /\ (w = "webhook") = (ev # "none")
        /\ ReadContact(w, c, ev)

DoWriteContact ==
    \E w \in Writers :
    \E findOut \in OutcomesFor(w = "loops", {"ok", "err"}),
       out \in OutcomesFor(w = "loops", {"ok", "err", "conflict"}) :
        /\ inflight[w].held
        /\ WriteContact(w, findOut, out)

NextConflict ==
    \/ DoReadContact
    \/ DoWriteContact

SpecConflict == InitConflict /\ [][NextConflict]_vars

(***************************************************************************)
(* SpecRequeue: the create paths of Email, ContactGroup and                *)
(* ContactGroupMembership, the Emails of every priority                    *)
(***************************************************************************)
\* spec.priority of an Email: the three priorities and a value that is none
\* of them
EmailPriorities == {"low", "normal", "high", ""}

\* Email e1 is new and has any priority, Email e2 was sent before
InitRequeue ==
    /\ \E p \in EmailPriorities :
          emails = [e \in EmailIds |->
                       [uid |-> EmailUID(e), name |-> EmailName(e),
                        priority |-> IF e = "e1" THEN p ELSE "normal",
                        providerID |-> IF e = "e2" THEN 1 ELSE NoID,
                        delivered |-> IF e = "e2" THEN PendingCondition ELSE NoCondition]]
    /\ emailPass = [e \in EmailIds |-> IF e = "e2" THEN "done" ELSE "none"]
    /\ sendCalls = [e \in EmailIds |->
                      IF e = "e2" THEN <<[key |-> EmailUID(e), id |-> 1]>> ELSE <<>>]
    /\ resend = [ids |-> [k \in IdempotencyKeys |-> IF k = EmailUID("e2") THEN 1 ELSE NoID],
                 msgs |-> [k \in IdempotencyKeys |-> IF k = EmailUID("e2") THEN 1 ELSE 0],
                 next |-> 2]
    /\ k8sEvents = [e \in EmailIds |-> 0]
    /\ webhooks = 0
    /\ contacts = [c \in ContactIds |-> [NewContact EXCEPT !.exists = (c = "c1")]]
    /\ groups = [g \in GroupIds |-> [NewGroup EXCEPT !.exists = (g = "g1")]]
    /\ cgms = [m \in CgmIds |-> [NewCgm EXCEPT !.exists = (m = "m1")]]
    /\ cgmrs = [r \in RemovalIds |-> FALSE]
    /\ audience = [entries |-> {}, next |-> 1]
    /\ resendGroups = {}
    /\ loops = [entries |-> {}, next |-> 1, subscribed |-> {}]
    /\ createLog = [i \in CreateIdentities |-> <<>>]
    /\ inflight = NoReads
    /\ cgmrReady = [r \in RemovalIds |-> FALSE]
    /\ lastOp = [op |-> "none"]

NextRequeue ==
    \/ DoEmailReconcile
    \/ DoContactGroupReconcile
    \/ DoCGMReconcile

SpecRequeue == InitRequeue /\ [][NextRequeue]_vars

(***************************************************************************)
(* SpecCreate: the idempotent create operations applied repeatedly         *)
(***************************************************************************)
DoInvokeCreateMembership ==
    \E m \in CgmIds, probeOut \in {"ok", "err"}, createOut \in {"ok", "err"} :
        /\ InvokeCreateMembership(CgmGroup(m), CgmContact(m), probeOut, createOut)
        /\ UNCHANGED <<emailVars, clusterVars, resendGroups, inflight, cgmrReady>>

DoInvokeCreateLoopsContact ==
    \E c \in ContactIds, findOut \in {"ok", "err"}, createOut \in {"ok", "err", "conflict"} :
        /\ InvokeCreateLoopsContact(c, findOut, createOut)
        /\ UNCHANGED <<emailVars, clusterVars, resendGroups, inflight, cgmrReady>>

NextCreate ==
    \/ DoInvokeCreateMembership
    \/ DoInvokeCreateLoopsContact

SpecCreate == Init /\ [][NextCreate]_vars

(***************************************************************************)
(* Properties of the Email reconciler and the delivery webhook (SpecEmail) *)
(***************************************************************************)
SendIssued(e) == Len(sendCalls'[e]) > Len(sendCalls[e])

\* C1: a reconcile pass that reads an Email whose Status.ProviderID is
\* non-empty, or whose Delivered condition is True, issues no provider send
\* call: in every step, the send calls of such an Email stay as they were.
C1_NoSendOnceSent ==
    [][\A e \in EmailIds :
          (emails[e].providerID # NoID \/ emails[e].delivered.status = "True")
              => sendCalls'[e] = sendCalls[e]]_vars

\* a pass has just read an Email with a ProviderID and returned without sending
C1_Witness ==
    /\ lastOp.op = "EmailReconcile"
    /\ lastOp.outcome = "skipped"
    /\ emails[lastOp.e].providerID # NoID
    /\ Len(sendCalls[lastOp.e]) >= 1

\* C2 (as stated): for one Email, at most one provider send call is ever
\* issued while its persisted ProviderID is empty, re-runs after a failed send
\* or a failed status write included.  Every send call is issued while the
\* ProviderID is empty, so the calls so issued are all the calls of the Email.
C2_AtMostOneSendWhileUnset ==
    \A e \in EmailIds :
        Len(sendCalls[e]) <= 1

\* C2 (amended): each step issues at most one send call for an Email, and
\* only while its persisted ProviderID is empty; a further call follows only
\* a pass whose send failed or whose status write failed, and carries the key
\* of the calls before it; once ProviderID is persisted no call is issued.
C2_ResendOnlyAfterFailure ==
    [][\A e \in EmailIds :
          /\ Len(sendCalls'[e]) <= Len(sendCalls[e]) + 1
          /\ SendIssued(e) =>
                /\ emails[e].providerID = NoID
                /\ sendCalls[e] = SubSeq(sendCalls'[e], 1, Len(sendCalls[e]))
                /\ Len(sendCalls[e]) > 0 =>
                      /\ emailPass[e] \in {"sendFailed", "statusFailed"}
                      /\ sendCalls'[e][Len(sendCalls'[e])].key = sendCalls[e][1].key
          /\ emails[e].providerID # NoID => ~SendIssued(e)]_vars

\* an Email sent on the second attempt, after a first call that failed
C2_Witness ==
    \E e \in EmailIds :
        /\ Len(sendCalls[e]) = 2
        /\ emailPass[e] = "done"
        /\ emails[e].providerID # NoID

\* C3 (Scenario A): a reconcile pass whose send returned id d and that
\* completed persists ProviderID = d with Delivered = Unknown/DeliveryPending;
\* a 'delivered' webhook event carrying email_id = d that is answered 200 sets
\* Delivered = True/Delivered on the Email holding ProviderID d and on no
\* other; and no step issues a send call for an Email so delivered.
C3_ScenarioA ==
    [][/\ \A e \in EmailIds :
             /\ (emails[e].providerID = NoID /\ SendIssued(e)
                   /\ sendCalls'[e][Len(sendCalls'[e])].id # NoID
                   /\ emailPass'[e] = "done")
                    => /\ emails'[e].providerID = sendCalls'[e][Len(sendCalls'[e])].id
                       /\ emails'[e].delivered =
                             [status |-> "Unknown", reason |-> "DeliveryPending"]
             /\ (emails[e].providerID # NoID
                   /\ emails[e].delivered = [status |-> "True", reason |-> "Delivered"])
                    => ~SendIssued(e)
       /\ (/\ lastOp'.op = "EmailWebhook"
           /\ lastOp'.http = 200
           /\ lastOp'.type = "email.delivered")
              => \E e \in EmailIds :
                    /\ emails[e].providerID = lastOp'.id
                    /\ emails'[e].providerID = lastOp'.id
                    /\ emails'[e].delivered = [status |-> "True", reason |-> "Delivered"]
                    /\ \A o \in EmailIds \ {e} : emails'[o] = emails[o]]_vars

\* sent, confirmed delivered by the webhook, then reconciled again without a send
C3_Witness ==
    /\ lastOp.op = "EmailReconcile"
    /\ lastOp.outcome = "skipped"
    /\ emails[lastOp.e].providerID # NoID
    /\ emails[lastOp.e].delivered = [status |-> "True", reason |-> "Delivered"]
    /\ k8sEvents[lastOp.e] >= 1
    /\ Len(sendCalls[lastOp.e]) = 1

\* the idempotency keys the send calls of Email e carried
KeysOf(e) == {sendCalls[e][i].key : i \in 1..Len(sendCalls[e])}

EntitiesOf(i) ==
    IF i[1] = "cgm"
    THEN {x \in audience.entries :
             x.group = AudienceID(i[2]) /\ x.email = ContactEmail(i[3], contacts[i[3]].generation)}
    ELSE {x \in loops.entries : x.userId = ContactUID(i[2])}

CreateIssued(entry) == \E k \in 1..Len(entry.calls) : entry.calls[k].call = "create"

\* C5: the idempotent create, invoked again for the same resource identity
\* (the same contact group and contact for a membership, the same UID for a
\* Loops contact) with no delete in between, returns the identifier it
\* returned before, issues no create call, and leaves exactly one entity
\* with the identity's key on the provider.
C5_IdempotentCreate ==
    \A i \in CreateIdentities :
        /\ \A j, k \in 1..Len(createLog[i]) :
              /\ createLog[i][j].id = createLog[i][k].id
              /\ k > 1 => ~CreateIssued(createLog[i][k])
        /\ Len(createLog[i]) >= 1 =>
              /\ Cardinality(EntitiesOf(i)) = 1
              /\ \A x \in EntitiesOf(i) : x.id = createLog[i][1].id

\* a membership and a Loops contact each created and then created again
C5_Witness ==
    /\ \E m \in CgmIds :
          LET i == <<"cgm", CgmGroup(m), CgmContact(m)>>
          IN /\ Len(createLog[i]) = 2
             /\ CreateIssued(createLog[i][1])
    /\ \E c \in ContactIds :
          /\ Len(createLog[<<"loops", c>>]) = 2
          /\ CreateIssued(createLog[<<"loops", c>>][1])

(***************************************************************************)
(* Properties of the membership update (SpecMembership)                    *)
(***************************************************************************)
\* the last step was the update-requested case of a membership reconcile pass
UpdatePass(op) == op.op = "CGMReconcile" /\ op.branch = "update"

BothStepsSucceeded(op) ==
    /\ Len(op.calls) = 2
    /\ op.calls[1] = [call |-> "delete", res |-> "deleted"]
    /\ op.calls[2] = [call |-> "create", res |-> "ok"]

\* C6: in an update, the provider create call is issued only after the
\* provider delete call of that update returned success with Deleted = true;
\* when the delete returned an error or Deleted = false the pass issues no
\* create call and the provider holds no new entity.
C6_DeleteBeforeCreate ==
    [][UpdatePass(lastOp') =>
          /\ Len(lastOp'.calls) >= 1
          /\ lastOp'.calls[1].call = "delete"
          /\ \A k \in 1..Len(lastOp'.calls) :
                lastOp'.calls[k].call = "create" =>
                    /\ k = 2
                    /\ lastOp'.calls[1].res = "deleted"
                    /\ ~\E x \in audience'.entries : x.id = cgms[lastOp'.m].providerID
          /\ lastOp'.calls[1].res # "deleted" =>
                /\ Len(lastOp'.calls) = 1
                /\ audience' = audience]_vars

\* an update pass that deleted the old membership and created the new one
C6_Witness ==
    /\ UpdatePass(lastOp)
    /\ BothStepsSucceeded(lastOp)
    /\ lastOp.wrote

\* C7 (as stated): a NotFound result of the delete step does not abort the
\* update: the create step is still issued in that pass.
C7_NotFoundDoesNotAbortUpdate ==
    (UpdatePass(lastOp) /\ lastOp.calls[1].res = "NotFound")
        => \E k \in 1..Len(lastOp.calls) : lastOp.calls[k].call = "create"

\* C8: when the delete step or the create step of a membership update
\* fails, the stored membership keeps its old ProviderID and its
\* UpdateRequested marker; the ProviderID of a membership marked
\* UpdateRequested changes, and the marker is cleared, only in an update
\* pass whose two steps both succeeded, and then to the new identifier.
C8_FailedUpdateKeepsOldID ==
    [][/\ (UpdatePass(lastOp') /\ ~BothStepsSucceeded(lastOp'))
             => cgms'[lastOp'.m] = cgms[lastOp'.m]
       /\ \A m \in CgmIds :
             (/\ cgms[m].ready # "Absent"
              /\ cgms[m].updated = "UpdateRequested"
              /\ \/ cgms'[m].providerID # cgms[m].providerID
                 \/ cgms'[m].updated # "UpdateRequested")
                => /\ UpdatePass(lastOp')
                   /\ lastOp'.m = m
                   /\ BothStepsSucceeded(lastOp')
                   /\ cgms'[m].providerID = audience.next
                   /\ cgms'[m].updated = "UpdatePending"]_vars

\* an update pass whose delete succeeded and whose create failed
C8_Witness ==
    /\ UpdatePass(lastOp)
    /\ Len(lastOp.calls) = 2
    /\ lastOp.calls[1].res = "deleted"
    /\ lastOp.calls[2].res = "error"
    /\ cgms[lastOp.m].updated = "UpdateRequested"
    /\ cgms[lastOp.m].providerID # NoID

(***************************************************************************)
(* Deletion guards (SpecCascade)                                           *)
(***************************************************************************)
\* the pass issued the provider call named call
CallIssued(op, call) == \E i \in 1..Len(op.calls) : op.calls[i].call = call

\* C9: the provider delete call for the entity of a ContactGroup is issued
\* only by a guard invocation whose second list of the memberships
\* referencing the group is empty: when the call has been issued, no
\* membership of the group is left in the store.
C9_GroupDeletedAfterMemberships ==
    (lastOp.op = "ContactGroupReconcile" /\ CallIssued(lastOp, "deleteGroup"))
        => /\ lastOp.branch = "finalize"
           /\ MembershipsOfGroup(cgms, lastOp.g) = {}
           /\ \A m \in CgmIds : CgmGroup(m) = lastOp.g => ~cgms[m].exists

\* the group with two memberships created on the provider was deleted on the
\* provider after both records left the store
C9_Witness ==
    /\ lastOp.op = "ContactGroupReconcile"
    /\ lastOp.g = "g1"
    /\ CallIssued(lastOp, "deleteGroup")
    /\ lastOp.calls[Len(lastOp.calls)].res = "deleted"
    /\ AudienceID("g1") \notin resendGroups
    /\ ~cgms["m1"].exists /\ cgms["m1"].providerID # NoID
    /\ ~cgms["m3"].exists /\ cgms["m3"].providerID # NoID
    /\ ~groups["g1"].exists

\* C10: the delete call for the external contact entity of a Contact is
\* issued only after no ContactGroupMembership referencing the Contact
\* remains in the store.
C10_ContactDeletedAfterMemberships ==
    (lastOp.op = "LoopsContactReconcile" /\ CallIssued(lastOp, "deleteContact"))
        => MembershipsOfContact(cgms, lastOp.c) = {}

\* the deletion guard of a Contact has completed: its finalizer is released
ContactGuardCompleted(c) == contacts[c].deleting /\ "contact" \notin contacts[c].finalizers

\* the deletion guard of a ContactGroup has completed
GroupGuardCompleted(g) == groups[g].deleting /\ ~groups[g].finalizer

\* C11: a Contact or ContactGroup whose deletion guard has completed is
\* referenced by no ContactGroupMembership and by no
\* ContactGroupMembershipRemoval in the store.
C11_NoReferenceAfterGuard ==
    /\ \A c \in ContactIds :
          ContactGuardCompleted(c)
              => /\ \A m \in CgmIds : cgms[m].exists => CgmContact(m) # c
                 /\ \A r \in RemovalIds : cgmrs[r] => RemovalContact(r) # c
    /\ \A g \in GroupIds :
          GroupGuardCompleted(g)
              => /\ \A m \in CgmIds : cgms[m].exists => CgmGroup(m) # g
                 /\ \A r \in RemovalIds : cgmrs[r] => RemovalGroup(r) # g

\* the guard of contact c1 completed after its membership and the removal
\* naming it left the store; the Contact is still held by its other finalizer
C11_Witness ==
    /\ ContactGuardCompleted("c1")
    /\ contacts["c1"].exists
    /\ ~cgms["m1"].exists /\ cgms["m1"].providerID # NoID
    /\ ~cgmrs["r1"]
    /\ lastOp.op = "ContactReconcile" /\ lastOp.branch = "finalized"

\* the membership guard returned success in the pass op over the membership
\* old: deletion already confirmed, or the provider answered NotFound
CgmGuardSucceeded(old, op) ==
    /\ op.op = "CGMReconcile"
    /\ op.branch = "finalize"
    /\ \/ old.deleted = "True"
       \/ Len(op.calls) = 1 /\ op.calls[1].res = "NotFound"

\* the group guard returned success in the pass op
GroupGuardSucceeded(op) ==
    /\ op.op = "ContactGroupReconcile"
    /\ op.branch = "finalize"
    /\ op.calls[Len(op.calls)].res \in {"NotFound", "deleted"}

\* C12: a finalizer is removed, and the removal persisted, only in a
\* reconcile pass in which the deletion guard of the resource returned
\* success; in a pass in which the guard returned an error the finalizer
\* stays and the resource remains in the store.
C12_FinalizerReleasedOnlyOnSuccess ==
    [][/\ \A m \in CgmIds :
             /\ (cgms[m].finalizer /\ ~cgms'[m].finalizer)
                   => lastOp'.m = m /\ CgmGuardSucceeded(cgms[m], lastOp')
             /\ (/\ lastOp'.op = "CGMReconcile" /\ lastOp'.m = m
                 /\ lastOp'.branch = "finalize"
                 /\ ~CgmGuardSucceeded(cgms[m], lastOp'))
                   => cgms'[m].finalizer /\ cgms'[m].exists
       /\ \A c \in ContactIds :
             /\ ("contact" \in contacts[c].finalizers /\ "contact" \notin contacts'[c].finalizers)
                   => /\ lastOp'.op = "ContactReconcile" /\ lastOp'.c = c
                      /\ MembershipsOfContact(cgms', c) = {}
             /\ (/\ lastOp'.op = "ContactReconcile" /\ lastOp'.c = c
                 /\ contacts[c].deleting /\ "contact" \in contacts[c].finalizers
                 /\ MembershipsOfContact(cgms', c) # {})
                   => "contact" \in contacts'[c].finalizers /\ contacts'[c].exists
       /\ \A g \in GroupIds :
             /\ (groups[g].finalizer /\ ~groups'[g].finalizer)
                   => /\ lastOp'.g = g /\ GroupGuardSucceeded(lastOp')
                      /\ MembershipsOfGroup(cgms', g) = {}
             /\ (/\ lastOp'.op = "ContactGroupReconcile" /\ lastOp'.g = g
                 /\ groups[g].deleting /\ groups[g].finalizer
                 /\ ~GroupGuardSucceeded(lastOp'))
                   => groups'[g].finalizer /\ groups'[g].exists
      ]_vars

\* a membership guard that deleted the provider entity and so returned its
\* "waiting for confirmation" error: the membership keeps its finalizer
C12_Witness ==
    /\ lastOp.op = "CGMReconcile"
    /\ lastOp.branch = "finalize"
    /\ lastOp.calls = <<[call |-> "delete", res |-> "deleted"]>>
    /\ cgms[lastOp.m].finalizer
    /\ cgms[lastOp.m].exists
    /\ cgms[lastOp.m].deleted = "DeletePending"

\* a finalizing pass whose provider delete call was answered NotFound
DeleteAnsweredNotFound(op) ==
    /\ op.op = "CGMReconcile"
    /\ op.branch = "finalize"
    /\ op.calls = <<[call |-> "delete", res |-> "NotFound"]>>

\* C13 (Scenario B): when the provider delete call for a membership is
\* answered NotFound, the deletion guard returns success in that invocation:
\* no Deleted condition is recorded, the provider is left as it was, and the
\* membership leaves the store as soon as the removal of its finalizer is
\* persisted.
C13_ScenarioB ==
    [][DeleteAnsweredNotFound(lastOp')
          => /\ lastOp'.guard = "success"
             /\ cgms'[lastOp'.m].deleted = cgms[lastOp'.m].deleted
             /\ audience' = audience
             /\ \/ cgms'[lastOp'.m] = cgms[lastOp'.m]
                \/ ~cgms'[lastOp'.m].exists /\ ~cgms'[lastOp'.m].finalizer]_vars

\* a finalizing pass of a membership holding no Deleted condition got
\* NotFound and released the membership
C13_Witness ==
    /\ DeleteAnsweredNotFound(lastOp)
    /\ lastOp.guard = "success"
    /\ ~cgms[lastOp.m].exists
    /\ cgms[lastOp.m].deleted = "Absent"
    /\ cgms[lastOp.m].providerID # NoID

\* a finalizing pass of the membership controller
FinalizePass(op) == op.op = "CGMReconcile" /\ op.branch = "finalize"

\* C14: when the provider delete call for a membership succeeds, the guard
\* records Deleted=False / DeletePending and returns an error, so that the
\* membership keeps its finalizer; the guard looks at the Deleted condition
\* before any provider delete call, and once the condition is True it
\* returns success without calling the provider.
C14_DeletePendingUntilConfirmed ==
    [][FinalizePass(lastOp')
          => /\ (lastOp'.calls = <<[call |-> "delete", res |-> "deleted"]>>)
                   => /\ lastOp'.guard = "error"
                      /\ cgms'[lastOp'.m].exists /\ cgms'[lastOp'.m].finalizer
                      /\ \/ cgms'[lastOp'.m].deleted = "DeletePending"
                         \/ cgms'[lastOp'.m] = cgms[lastOp'.m]
             /\ (cgms[lastOp'.m].deleted = "True")
                   => /\ lastOp'.calls = <<>>
                      /\ lastOp'.guard = "success"
                      /\ audience' = audience
             /\ (lastOp'.calls # <<>>) => cgms[lastOp'.m].deleted # "True"]_vars

\* a membership whose deletion was confirmed left the store in a pass that
\* issued no provider call
C14_Witness ==
    /\ FinalizePass(lastOp)
    /\ lastOp.calls = <<>>
    /\ lastOp.guard = "success"
    /\ cgms[lastOp.m].deleted = "True"
    /\ ~cgms[lastOp.m].exists

(***************************************************************************)
(* Webhook paths (SpecWebhook)                                             *)
(***************************************************************************)
\* no Email in the store carries the provider identifier id
NoEmailCarries(id) == \A e \in EmailIds : emails[e].providerID # id

\* no Contact in the store carries the provider identifier id
NoContactCarries(id) == \A c \in ContactIds : contacts[c].exists => contacts[c].providerID # id

Accepted(e) == resend.ids[IdempotencyKey(emails[e])] # NoID

\* C16: a delivery event that arrives after the provider accepted the send
\* and before the reconciler persisted ProviderID is answered 404 and
\* changes no resource; once ProviderID is persisted the redelivered event
\* is correlated and applied, so that under the provider's redeliveries the
\* Delivered condition of the Email eventually shows the event.
C16_RedeliveryAfterRace ==
    /\ [][(lastOp'.op = "EmailWebhook" /\ NoEmailCarries(lastOp'.id))
             => /\ lastOp'.http = 404
                /\ UNCHANGED <<emails, k8sEvents>>]_vars
    /\ \A e \in EmailIds :
          Accepted(e) ~> (emails[e].delivered = [status |-> "True", reason |-> "Delivered"])

\* the send of an Email was accepted in a pass that did not persist
\* ProviderID; a later pass persisted it and the redelivered event was applied
C16_Witness ==
    /\ lastOp.op = "EmailWebhook"
    /\ lastOp.http = 200
    /\ \E e \in EmailIds :
          /\ emails[e].providerID = lastOp.id
          /\ emails[e].delivered = [status |-> "True", reason |-> "Delivered"]
          /\ Len(sendCalls[e]) >= 2

(***************************************************************************)
(* Webhook receiver (SpecReceiver)                                         *)
(***************************************************************************)
\* the step just taken served a request
Served == lastOp'.op = "ServeHTTP"

\* ServeHTTP performed step s before it returned
Did(steps, s) == \E i \in 1..Len(steps) : steps[i] = s

\* no object of the store and no provider state changes in the step
NothingTouched ==
    UNCHANGED <<emails, emailPass, sendCalls, resend, k8sEvents, webhooks,
                contacts, groups, cgms, cgmrs, audience, resendGroups, loops, createLog, inflight, cgmrReady>>

\* C17: a POST whose body arrived and whose signature does not verify, be it
\* a wrong signature or absent signature headers, is answered 401; neither
\* parser has run, no handler was invoked and nothing in the store changed.
C17_UnverifiedRejectedBeforeParsing ==
    [][(/\ Served
        /\ lastOp'.req.method = "POST"
        /\ lastOp'.req.readOk
        /\ lastOp'.req.sig \in {"invalid", "missing"})
          => /\ lastOp'.http = 401
             /\ Last(lastOp'.steps) = "verify"
             /\ \A s \in {"parseEmail", "parseContact", "handleEmail", "handleContact"} :
                   ~Did(lastOp'.steps, s)
             /\ NothingTouched]_vars

\* a POST without signature headers, carrying a delivery event that names a
\* stored Email, was answered 401 after an earlier request had been applied
C17_Witness ==
    /\ lastOp.op = "ServeHTTP"
    /\ lastOp.req = [method |-> "POST", sig |-> "missing", readOk |-> TRUE, body |-> EmailBody]
    /\ lastOp.http = 401
    /\ ~NoEmailCarries(EmailBody.id)
    /\ webhooks > 0

\* C18: a request whose method is not POST is answered 405 with the header
\* Allow: POST; ServeHTTP returns from the method check, so the body is not
\* read, the signature is not verified and no handler is invoked.
C18_NonPostRejectedFirst ==
    [][(Served /\ lastOp'.req.method # "POST")
          => /\ lastOp'.http = 405
             /\ lastOp'.allow = "POST"
             /\ lastOp'.steps = <<"method">>
             /\ NothingTouched]_vars

\* a GET carrying a valid signature and a delivery event that names a stored
\* Email was answered 405 after an earlier request had been applied
C18_Witness ==
    /\ lastOp.op = "ServeHTTP"
    /\ lastOp.req = [method |-> "GET", sig |-> "valid", readOk |-> TRUE, body |-> EmailBody]
    /\ lastOp.http = 405
    /\ ~NoEmailCarries(EmailBody.id)
    /\ webhooks > 0

\* what the schemas accept: a JSON envelope of a type of the schema whose
\* data block decodes
IsEmailEvent(body) == body.json /\ body.type \in allowedEvents /\ body.data

IsContactEvent(body) == body.json /\ body.type \in allowedContactEvents /\ body.data

\* the handler invocations among the steps of a request
HandlerCalls(steps) ==
    {i \in 1..Len(steps) : steps[i] \in {"handleEmail", "handleContact"}}

\* C19: for a POST whose signature verified, the email parser runs first and
\* the contact parser runs only if the email parser failed; a body one of
\* the schemas accepts is handed to the handler exactly once, as an event of
\* the first schema that accepts it; the answer is 400, with no handler
\* invocation, exactly when neither schema accepts the body.
C19_SchemaPriority ==
    [][(/\ Served
        /\ lastOp'.req.method = "POST"
        /\ lastOp'.req.readOk
        /\ lastOp'.req.sig = "valid")
          => LET body == lastOp'.req.body
                 steps == lastOp'.steps
             IN /\ Len(steps) >= 4 /\ steps[4] = "parseEmail"
                /\ Did(steps, "parseContact") <=> ~IsEmailEvent(body)
                /\ Did(steps, "parseContact") => steps[5] = "parseContact"
                /\ IsEmailEvent(body)
                      => Cardinality(HandlerCalls(steps)) = 1 /\ Last(steps) = "handleEmail"
                /\ (~IsEmailEvent(body) /\ IsContactEvent(body))
                      => Cardinality(HandlerCalls(steps)) = 1 /\ Last(steps) = "handleContact"
                /\ (lastOp'.http = 400) <=> (~IsEmailEvent(body) /\ ~IsContactEvent(body))
                /\ (lastOp'.http = 400) => HandlerCalls(steps) = {} /\ NothingTouched]_vars

\* a contact-lifecycle event was handed to the contact handler after the
\* email parser had refused it, and the handler applied it
C19_Witness ==
    /\ lastOp.op = "ServeHTTP"
    /\ lastOp.endpoint = "contacts"
    /\ lastOp.req = [method |-> "POST", sig |-> "valid", readOk |-> TRUE, body |-> ContactBody]
    /\ lastOp.steps = <<"method", "read", "verify", "parseEmail", "parseContact", "handleContact">>
    /\ lastOp.http = 200
    /\ \E c \in ContactIds : contacts[c].events > 0

(***************************************************************************)
(* Event type to condition (SpecCondition)                                 *)
(***************************************************************************)
\* the table of event types and conditions; the one allowed type the table
\* leaves out, email.delivery_delayed, gives Unknown / DeliveryPending too
TableCondition(eventType) ==
    IF eventType \in {"email.delivered", "email.opened", "email.clicked", "email.complained"}
    THEN [status |-> "True", reason |-> "Delivered"]
    ELSE IF eventType \in {"email.bounced", "email.failed"}
    THEN [status |-> "False", reason |-> "DeliveryFailed"]
    ELSE [status |-> "Unknown", reason |-> "DeliveryPending"]

\* C20: a delivery event correlated with an Email either leaves the Email as
\* it was (the status write failed, answer 500) or writes the Delivered
\* condition the table gives for its event type, whatever condition the
\* Email held before; an event answered 200 has written it.
C20_ConditionFromEventTypeAlone ==
    [][(lastOp'.op = "EmailWebhook" /\ ~NoEmailCarries(lastOp'.id))
          => \A e \in EmailIds :
                emails[e].providerID = lastOp'.id
                   => /\ \/ emails'[e].delivered = TableCondition(lastOp'.type)
                         \/ emails'[e] = emails[e] /\ lastOp'.http = 500
                      /\ lastOp'.http = 200
                            => emails'[e].delivered = TableCondition(lastOp'.type)]_vars

\* a complaint was applied to an Email an earlier event had been applied to
C20_Witness ==
    /\ lastOp.op = "EmailWebhook"
    /\ lastOp.http = 200
    /\ lastOp.type = "email.complained"
    /\ \E e \in EmailIds :
          /\ emails[e].providerID = lastOp.id
          /\ emails[e].delivered = [status |-> "True", reason |-> "Delivered"]
          /\ k8sEvents[e] >= 2

(***************************************************************************)
(* Status write and Event of the webhook handlers (SpecWebhook)            *)
(***************************************************************************)
\* C21: a handler that answers 200 for an event that matched a resource has
\* written the condition mapped from the event to that resource and has
\* created exactly one Event regarding it, and none regarding another
\* resource; a handler whose status write failed answers 500, leaves the
\* resource as it was and creates no Event; no Event is created by a request
\* that is not answered 200.
C21_StatusThenOneEvent ==
    [][/\ (lastOp'.op = "EmailWebhook" /\ ~NoEmailCarries(lastOp'.id))
             => \A e \in EmailIds :
                   IF emails[e].providerID = lastOp'.id
                   THEN /\ lastOp'.http = 200
                             => /\ emails'[e].delivered.status =
                                      GetEmailCondition(lastOp'.type).status
                                /\ emails'[e].delivered.reason =
                                      GetEmailCondition(lastOp'.type).reason
                                /\ k8sEvents'[e] = k8sEvents[e] + 1
                        /\ lastOp'.http # 200 => k8sEvents'[e] = k8sEvents[e]
                   ELSE emails'[e] = emails[e] /\ k8sEvents'[e] = k8sEvents[e]
       /\ (lastOp'.op = "ContactWebhook" /\ ~NoContactCarries(lastOp'.id))
             => \A c \in ContactIds :
                   IF contacts[c].exists /\ contacts[c].providerID = lastOp'.id
                   THEN /\ lastOp'.http = 200
                             => contacts'[c] =
                                   [ContactAfterEvent(contacts[c], lastOp'.type)
                                       EXCEPT !.events = contacts[c].events + 1]
                        /\ lastOp'.http # 200 => contacts'[c].events = contacts[c].events
                   ELSE contacts'[c] = contacts[c]
       /\ \A t \in WebhookEventTypes, id \in DeliveryIDs :
             (EmailWebhook(t, id, "writeFail") /\ ~NoEmailCarries(id))
                => lastOp'.http = 500 /\ UNCHANGED <<emails, k8sEvents>>
       /\ \A t \in allowedContactEvents, id \in ContactProviderIDs :
             (ContactWebhook(t, id, "writeFail") /\ ~NoContactCarries(id))
                => lastOp'.http = 500 /\ UNCHANGED contacts]_vars

\* a contact.deleted event was answered 200: the Contact shows the deletion
\* and one Event regards it, after a delivery event had been applied
C21_Witness ==
    /\ lastOp.op = "ContactWebhook"
    /\ lastOp.type = "contact.deleted"
    /\ lastOp.http = 200
    /\ \E c \in ContactIds :
          /\ contacts[c].providerID = lastOp.id
          /\ contacts[c].deleted = "True"
          /\ contacts[c].events = 1
    /\ \E e \in EmailIds : k8sEvents[e] = 1

(***************************************************************************)
(* Aggregated readiness (SpecAggregate)                                    *)
(***************************************************************************)
\* the providers the message of a Ready = False condition names
ProvidersNamed(cgm) == {cgm.notReady[i].provider : i \in 1..Len(cgm.notReady)}

\* the providers whose sub-condition is missing or not True
ProvidersNotReady(cgm) ==
    {p \in {"Loops", "Resend"} :
        (IF p = "Loops" THEN cgm.loopsReady ELSE cgm.resendReady) # "True"}

\* C22: the Ready condition a reconcile pass of a ContactGroupMembership
\* computes is True exactly when the Loops and the Resend sub-condition are
\* both present with status True; otherwise it is False and its message
\* names exactly the providers whose sub-condition is missing or not True;
\* and that is what the pass leaves in the store unless its write failed.
C22_AggregatedReadiness ==
    (lastOp.op = "AggregatedReconcile" /\ lastOp.branch \in {"create", "update", "none"})
       => LET c == lastOp.computed
          IN /\ c.ready = "True" <=> (c.loopsReady = "True" /\ c.resendReady = "True")
             /\ c.ready # "True"
                   => /\ c.ready = "False"
                      /\ ProvidersNamed(c) = ProvidersNotReady(c)
                      /\ ProvidersNamed(c) # {}
             /\ cgms[lastOp.m] \in {c, lastOp.read}

\* a pass over a membership Loops reports ready and Resend does not: Ready
\* is stored False, with a message naming Resend only
C22_Witness ==
    /\ lastOp.op = "AggregatedReconcile"
    /\ lastOp.wrote
    /\ cgms[lastOp.m] = lastOp.computed
    /\ cgms[lastOp.m].loopsReady = "True"
    /\ cgms[lastOp.m].resendReady = "False"
    /\ cgms[lastOp.m].ready = "False"
    /\ ProvidersNamed(cgms[lastOp.m]) = {"Resend"}


(***************************************************************************)
(* Status writes of the reconcilers (SpecStatus)                           *)
(***************************************************************************)
StatusReconcilers == {"ContactReconcile", "ContactGroupReconcile", "CGMReconcile"}

\* a pass that reached the computation of the status
StatusPass(o) == o.op \in StatusReconcilers /\ o.branch \in {"create", "update", "none"}

\* a pass that returned without an error
Completed(o) ==
    \/ o.wrote
    \/ o.branch = "none"
    \/ o.op = "ContactGroupReconcile" /\ o.branch = "update" /\ o.statusWrites = 0

ResourceOf(o) ==
    IF o.op = "ContactReconcile" THEN o.c
    ELSE IF o.op = "ContactGroupReconcile" THEN o.g ELSE o.m

StoredObject(o, cs, gs, ms) ==
    IF o.op = "ContactReconcile" THEN cs[o.c]
    ELSE IF o.op = "ContactGroupReconcile" THEN gs[o.g] ELSE ms[o.m]

\* two passes over the same resource with nothing in between, the first one
\* completed
ConsecutivePasses ==
    /\ StatusPass(lastOp) /\ Completed(lastOp)
    /\ StatusPass(lastOp')
    /\ lastOp'.op = lastOp.op
    /\ ResourceOf(lastOp') = ResourceOf(lastOp)

\* C23 as stated: the second of two consecutive passes over a Contact, a
\* ContactGroup or a ContactGroupMembership, with no change in between,
\* issues no status write
C23_SecondPassWritesNothing ==
    [][ConsecutivePasses => lastOp'.statusWrites = 0]_vars

\* C23, amended: a pass that issues no status write leaves the status of its
\* resource as it was and an accepted write of its own status changed it; the
\* second of two consecutive passes issues no status write, except an update
\* pass that follows the creation pass: of a Contact, whose Updated condition
\* is still absent (it writes the markers and the Updated condition), or of a
\* membership that was marked before it was created (it writes its own status)
C23_NoStatusWriteWithoutChange ==
    [][/\ StatusPass(lastOp') =>
            /\ lastOp'.statusWrites = 0 =>
                   StoredObject(lastOp', contacts', groups', cgms')
                       = StoredObject(lastOp', contacts, groups, cgms)
            /\ lastOp'.wrote =>
                   StoredObject(lastOp', contacts', groups', cgms')
                       # StoredObject(lastOp', contacts, groups, cgms)
       /\ ConsecutivePasses =>
            \/ lastOp'.statusWrites = 0
            \/ /\ lastOp.branch = "create"
               /\ lastOp'.branch = "update"
               /\ \/ /\ lastOp.op = "ContactReconcile"
                     /\ contacts[lastOp.c].updatedGen = 0
                     /\ lastOp'.statusWrites
                            <= Cardinality(MembershipsOfContact(cgms, lastOp.c)) + 1
                  \/ /\ lastOp.op = "CGMReconcile"
                     /\ cgms[lastOp.m].updated = "UpdateRequested"
                     /\ lastOp'.statusWrites <= 1]_vars

\* a pass over a ContactGroup took the update path again for a generation whose
\* Updated condition was already written, and issued no write
C23_Witness ==
    /\ lastOp.op = "ContactGroupReconcile"
    /\ lastOp.branch = "update"
    /\ lastOp.statusWrites = 0
    /\ groups[lastOp.g].updatedGen = groups[lastOp.g].generation
    /\ groups[lastOp.g].generation > 1


(***************************************************************************)
(* Concurrent writers of a Contact's status (SpecConflict)                 *)
(***************************************************************************)
\* writer w ends its pass or request in this step
WritesBack(w) == inflight[w].held /\ ~inflight'[w].held

\* another writer wrote the Contact since w read it
WrittenSinceRead(w) == Versioned(contacts[inflight[w].c]) # Versioned(inflight[w].obj)

\* C24: when another writer wrote the Contact between the read and the write
\* of a reconciler or of the webhook, no condition the other writer wrote is
\* overwritten or dropped by the write
C24_StaleWriteRejected ==
    [][\A w \in Writers :
          WritesBack(w) /\ WrittenSinceRead(w)
              => \A f \in ConditionFields :
                    contacts[inflight[w].c][f] # inflight[w].obj[f]
                        => contacts'[inflight[w].c][f] = contacts[inflight[w].c][f]]_vars

\* the two writers that use Status().Update are rejected when the Contact was
\* written since they read it
C24_UpdateWritersRejected ==
    [][\A w \in Writers \ {"loops"} :
          WritesBack(w) /\ WrittenSinceRead(w)
              => /\ contacts'[inflight[w].c] = contacts[inflight[w].c]
                 /\ lastOp'.res \in {"conflict", "unchanged"}]_vars

\* a condition written by ContactController after LoopsContactController read
\* the Contact is gone after the patch of LoopsContactController
C24_ConditionDropped ==
    /\ lastOp.op = "WriteContact"
    /\ lastOp.w = "loops"
    /\ lastOp.res = "patched"
    /\ contacts[lastOp.c].ready = "Absent"
    /\ contacts[lastOp.c].loopsReady = "Created"
    /\ contacts[lastOp.c].generation = 1
    /\ ~inflight["contact"].held
    /\ ~inflight["webhook"].held


(***************************************************************************)
(* Status writes per pass (SpecWrites)                                     *)
(***************************************************************************)
WritingPasses ==
    {"ContactReconcile", "CGMReconcile", "ContactGroupReconcile", "LoopsContactReconcile"}

\* the status writes a pass of ContactController issued on memberships
MarkerWritesOf(o) == IF o.op = "ContactReconcile" THEN o.markerWrites ELSE 0

\* C25 as stated: a reconcile or deletion-guard pass issues at most one status
\* write in total, and only when the computed status differs from the status
\* read
C25_AtMostOneStatusWrite ==
    lastOp.op \in WritingPasses =>
        /\ lastOp.statusWrites <= 1
        /\ lastOp.statusWrites = 1 => lastOp.changed

\* C25, amended: a pass issues at most one write of the status of its own
\* resource, and only when the computed status differs from the status read;
\* the update pass of ContactController issues in addition one status write on
\* each membership of the contact it reaches
C25_OneOwnStatusWrite ==
    lastOp.op \in WritingPasses =>
        LET markers == MarkerWritesOf(lastOp)
            own == lastOp.statusWrites - markers
        IN /\ own \in {0, 1}
           /\ own = 1 => lastOp.changed
           /\ markers <= Cardinality(MembershipsOfContact(cgms, "c1"))
           /\ markers > 0 => lastOp.op = "ContactReconcile" /\ lastOp.branch = "update"

\* the update pass of a contact with one membership wrote the marker and the
\* Updated condition
C25_Witness ==
    /\ lastOp.op = "ContactReconcile"
    /\ lastOp.branch = "update"
    /\ lastOp.markerWrites = 1
    /\ lastOp.statusWrites = 2
    /\ lastOp.wrote
    /\ cgms["m1"].updated = "UpdateRequested"
    /\ contacts["c1"].updatedGen = contacts["c1"].generation

\* the deletion guard of a membership wrote DeletePending, in one write
C25_GuardWitness ==
    /\ lastOp.op = "CGMReconcile"
    /\ lastOp.branch = "finalize"
    /\ lastOp.statusWrites = 1
    /\ cgms["m1"].deleted = "DeletePending"


(***************************************************************************)
(* Failure of the provider create call (SpecRequeue)                       *)
(***************************************************************************)
\* the delays ctrl.Result{RequeueAfter} can carry
ConfiguredWaits == {"lowPriorityEmailWait", "normalPriorityEmailWait", "highPriorityEmailWait"}

\* the last pass was the create path of its resource and the create (send)
\* call of the provider failed
CreateCallFailed ==
    \/ lastOp.op = "EmailReconcile" /\ lastOp.outcome = "sendFailed"
    \/ /\ lastOp.op \in {"ContactGroupReconcile", "CGMReconcile"}
       /\ lastOp.branch = "create"
       /\ lastOp.calls[Len(lastOp.calls)].res = "error"

\* the status of the resource of the last pass holds no ProviderID and no
\* condition of the create path
StatusUntouched ==
    IF lastOp.op = "EmailReconcile"
    THEN emails[lastOp.e].providerID = NoID /\ emails[lastOp.e].delivered = NoCondition
    ELSE IF lastOp.op = "ContactGroupReconcile"
    THEN /\ groups[lastOp.g].providerID = "" /\ groups[lastOp.g].ready = "Absent"
         /\ lastOp.statusWrites = 0
    ELSE /\ cgms[lastOp.m].providerID = NoID /\ cgms[lastOp.m].ready = "Absent"
         /\ lastOp.statusWrites = 0

C26_GroupWitness ==
    /\ lastOp.op = "ContactGroupReconcile"
    /\ lastOp.branch = "create"
    /\ lastOp.onCreateFailure = "error"
    /\ groups[lastOp.g].ready = "Absent"


(***************************************************************************)
(* The update path of a Contact (SpecStatus)                               *)
(***************************************************************************)
\* the step is a pass of ContactController over c that took the update path
ContactUpdatePass(c) ==
    /\ lastOp'.op = "ContactReconcile"
    /\ lastOp'.c = c
    /\ lastOp'.branch = "update"

\* membership m is given the marker in this step
Flagged(m) ==
    /\ cgms[m].exists
    /\ cgms[m].updated # "UpdateRequested"
    /\ cgms'[m].updated = "UpdateRequested"

AllFlagged(c) ==
    \A m \in MembershipsOfContact(cgms, c) : cgms'[m].updated = "UpdateRequested"

\* C28: an update pass of a Contact writes the marker Updated=False /
\* UpdateRequested on every membership that refers to the Contact and on no
\* other; the Updated condition of the Contact for its Generation is persisted
\* only when every marker was written, and when a marker write failed it is
\* not persisted and the Contact still needs the update, so the next pass
\* retries it
C28_MarkersBeforeUpdated ==
    [][\A c \in ContactIds :
          ContactUpdatePass(c) =>
              /\ lastOp'.wrote => AllFlagged(c) /\ contacts'[c].updatedGen = contacts[c].generation
              /\ contacts'[c] # contacts[c] => AllFlagged(c) /\ lastOp'.wrote
              /\ ~AllFlagged(c) =>
                    /\ contacts'[c] = contacts[c]
                    /\ ~lastOp'.wrote
                    /\ ContactNeedsUpdate(contacts'[c])
              /\ \A m \in CgmIds \ MembershipsOfContact(cgms, c) : cgms'[m] = cgms[m]
              /\ \A m \in MembershipsOfContact(cgms, c) :
                    cgms'[m] \in {cgms[m], [cgms[m] EXCEPT !.updated = "UpdateRequested"]}]_vars

\* an update pass over a contact with two memberships wrote both markers and
\* then the Updated condition
C28_Witness ==
    /\ lastOp.op = "ContactReconcile"
    /\ lastOp.branch = "update"
    /\ lastOp.wrote
    /\ lastOp.markerWrites = 2
    /\ \A m \in MembershipsOfContact(cgms, "c1") : cgms[m].updated = "UpdateRequested"
    /\ contacts["c1"].updatedGen = contacts["c1"].generation

\* the second marker write of an update pass failed: the first membership is
\* flagged, the Updated condition is not persisted
C28_FailureWitness ==
    /\ lastOp.op = "ContactReconcile"
    /\ lastOp.branch = "update"
    /\ ~lastOp.wrote
    /\ lastOp.markerWrites = 2
    /\ cgms["m1"].updated = "UpdateRequested"
    /\ cgms["m2"].updated # "UpdateRequested"
    /\ contacts["c1"].updatedGen = 0


(***************************************************************************)
(* The marker of a membership and its update (SpecMarker)                  *)
(***************************************************************************)
\* the step is a pass of ContactGroupMembershipController over m
CgmPass(m) == lastOp'.op = "CGMReconcile" /\ lastOp'.m = m

\* the pass over m returned without an error
SuccessfulPass(m) == CgmPass(m) /\ (lastOp'.wrote \/ lastOp'.branch = "none")

\* membership m carries the marker set by the update pass of its Contact
Marked(m) == cgms[m].exists /\ cgms[m].updated = "UpdateRequested"

\* the pass issued a call of the provider-side update
ProviderUpdateIssued ==
    lastOp'.branch = "update" /\ lastOp'.calls # <<>>

\* SpecMarker: the memberships of SpecMembership with passes that keep
\* running (a pass that failed is requeued by the work queue)
SpecMarker ==
    /\ Init
    /\ [][NextMembership]_vars
    /\ WF_vars(DoCGMReconcile)

\* C29: a membership pass performs the provider-side update only when the
\* membership carries Updated=False/UpdateRequested; a successful update pass
\* replaces the marker (by UpdatePending, or Updated in the aggregated
\* controller), so that later passes issue no provider update until the
\* marker is set again; and when passes over the membership keep succeeding,
\* every marker set is eventually acted on and cleared
C29_MarkerLifecycle ==
    /\ [][\A m \in CgmIds :
             CgmPass(m) =>
                 /\ lastOp'.branch = "update" <=>
                        /\ Marked(m) /\ cgms[m].finalizer /\ ~cgms[m].deleting
                        /\ cgms[m].ready # "Absent"
                        /\ contacts[CgmContact(m)].exists /\ groups[CgmGroup(m)].exists
                 /\ ~Marked(m) => ~ProviderUpdateIssued
                 /\ lastOp'.branch = "update" /\ lastOp'.wrote =>
                        /\ cgms'[m].updated \in {"UpdatePending", "Updated"}
                        /\ lastOp'.calls[Len(lastOp'.calls)] = [call |-> "create", res |-> "ok"]
                 /\ lastOp'.branch = "update" /\ ~lastOp'.wrote => Marked(m)']_vars
    /\ \A m \in CgmIds : ([]<><<SuccessfulPass(m)>>_vars) => (Marked(m) ~> ~Marked(m))

\* the marker of a membership was acted on: the provider holds the membership
\* under a new identifier and the marker is replaced
C29_Witness ==
    /\ lastOp.op = "CGMReconcile"
    /\ lastOp.branch = "update"
    /\ lastOp.wrote
    /\ cgms[lastOp.m].updated = "UpdatePending"
    /\ cgms[lastOp.m].providerID = 2


(***************************************************************************)
(* SpecConverge: spec edits of a Contact and a ContactGroup, with passes   *)
(* that keep running and whose store and provider calls succeed in the end *)
(***************************************************************************)
NextConverge ==
    \/ DoContactReconcile
    \/ DoContactGroupReconcile
    \/ DoContactSpecUpdate
    \/ DoGroupSpecUpdate

\* a pass of ContactController over c in which every store call succeeds
ContactPassOk(c) ==
    /\ ContactReconcile(c, "none", TRUE)
    /\ UNCHANGED <<emailVars, providerVars, createLog, inflight, cgmrReady>>

\* a pass of ContactGroupController over g in which every store and provider
\* call succeeds
GroupPassOk(g) ==
    /\ ContactGroupReconcile(g, "none", "ok", "ok", TRUE)
    /\ UNCHANGED <<emailVars, contacts, audience, loops, createLog, inflight, cgmrReady>>

SpecConverge ==
    /\ InitStatus
    /\ [][NextConverge]_vars
    /\ \A c \in ContactIds : WF_vars(ContactPassOk(c))
    /\ \A g \in GroupIds : WF_vars(GroupPassOk(g))

\* the Updated condition of the Contact carries its latest generation
ContactConverged(c) ==
    contacts[c].exists => contacts[c].updatedGen = contacts[c].generation

\* the Updated condition of the ContactGroup carries its latest generation
GroupUpdatedConverged(g) ==
    groups[g].exists /\ groups[g].generation > 1 =>
        groups[g].updatedGen = groups[g].generation

\* the Ready condition written by the creation pass, or else the Updated
\* condition, carries the latest generation of the ContactGroup
GroupConverged(g) ==
    groups[g].exists =>
        \/ groups[g].ready = "True" /\ groups[g].readyGen = groups[g].generation
        \/ groups[g].updatedGen = groups[g].generation

\* C30 as stated: after finitely many spec edits, with passes that keep
\* running and succeed in the end, the Updated condition of every Contact and
\* of every edited ContactGroup ends with ObservedGeneration equal to the
\* latest generation
C30_UpdatedReachesGeneration ==
    /\ \A c \in ContactIds : <>[]ContactConverged(c)
    /\ \A g \in GroupIds : <>[]GroupUpdatedConverged(g)

\* C30, amended: after finitely many spec edits, with passes that keep running
\* and succeed in the end, the Updated condition of every Contact ends with
\* ObservedGeneration equal to the latest generation; a ContactGroup ends with
\* a condition observed at its latest generation, which is Updated for an edit
\* made after the creation pass and Ready for edits made before it (the group
\* then never gets an Updated condition)
C30_ConditionReachesGeneration ==
    /\ \A c \in ContactIds : <>[]ContactConverged(c)
    /\ \A g \in GroupIds : <>[]GroupConverged(g)
    /\ \A g \in GroupIds :
           <>[](groups[g].exists /\ groups[g].readyGen # groups[g].generation =>
                    groups[g].updatedGen = groups[g].generation)

\* an edited Contact whose update pass recorded the latest generation, next to
\* an edited ContactGroup whose Updated condition carries the latest generation
C30_Witness ==
    /\ lastOp.op = "ContactReconcile"
    /\ lastOp.branch = "update"
    /\ lastOp.wrote
    /\ contacts["c1"].generation = MaxGeneration
    /\ contacts["c1"].updatedGen = MaxGeneration
    /\ groups["g1"].readyGen = 1
    /\ groups["g1"].updatedGen = MaxGeneration

\* a ContactGroup edited before its creation pass: generation 1 was never
\* observed, and no later pass writes an Updated condition
C30_SkippedWitness ==
    /\ lastOp.op = "ContactGroupReconcile"
    /\ lastOp.branch = "none"
    /\ groups["g1"].readyGen = MaxGeneration
    /\ groups["g1"].generation = MaxGeneration
    /\ groups["g1"].updatedGen = 0


(***************************************************************************)
(* The idempotent delete of the provider adapter (SpecMembership)          *)
(***************************************************************************)
\* C31 (as stated): when the provider reports that the membership to delete
\* does not exist, Service.DeleteContactGroupMembershipIdempotent returns
\* Deleted=true and no error: no membership pass sees a delete call end with
\* the NotFound error
C31_NotFoundIsDeleted ==
    lastOp.op = "CGMReconcile" =>
        \A i \in 1..Len(lastOp.calls) :
            lastOp.calls[i].call = "delete" =>
                lastOp.calls[i].res \in {"deleted", "refused", "error"}


(***************************************************************************)
(* ContactGroupMembershipRemovalController (SpecRemoval)                   *)
(***************************************************************************)
MembershipsOfPairAny(cg, r) == {m \in CgmIds : cg[m].exists}

\* the List of the removal controller: the memberships indexed under
\* buildContactAndContactGroupTupleIndexKey of the removal's two references
MembershipsOfPair(cg, r) ==
    {m \in CgmIds : /\ cg[m].exists
                    /\ CgmContact(m) = RemovalContact(r)
                    /\ CgmGroup(m) = RemovalGroup(r)}

\* ContactGroupMembershipRemovalController.Reconcile, one pass.  failAt names
\* the membership whose Delete fails ("none": no Delete fails), goneAt the
\* membership whose Delete answers NotFound
CGMRReconcile(r, listOk, failAt, goneAt, writeOk) ==
    LET listed == MembershipsOfPair(cgms, r)
        handled == HandledBefore(listed, failAt) \ {goneAt}
        Done(branch, deleted, wrote) ==
            lastOp' = [op |-> "CGMRReconcile", r |-> r, branch |-> branch,
                       listed |-> listed, deleted |-> deleted, wrote |-> wrote]
    IN IF ~cgmrs[r]
       THEN Done("gone", {}, FALSE) /\ UNCHANGED <<cgms, cgmrReady>>
       ELSE IF cgmrReady[r]
       THEN Done("skipped", {}, FALSE) /\ UNCHANGED <<cgms, cgmrReady>>
       ELSE IF ~listOk
       THEN Done("listFailed", {}, FALSE) /\ UNCHANGED <<cgms, cgmrReady>>
       ELSE /\ cgms' = StoreDelete(cgms, handled)
            /\ IF failAt \in listed
               THEN Done("deleteFailed", handled, FALSE) /\ UNCHANGED cgmrReady
               ELSE /\ cgmrReady' = [cgmrReady EXCEPT ![r] = writeOk]
                    /\ Done("removed", handled, writeOk)

\* a client creates the ContactGroupMembership m
CreateMembershipRequest(m) ==
    /\ ~cgms[m].exists
    /\ cgms' = [cgms EXCEPT ![m] = NewCgm]
    /\ lastOp' = [op |-> "CreateMembershipRequest", m |-> m]
    /\ UNCHANGED cgmrReady

DoCGMRReconcile ==
    \E r \in RemovalIds :
    \E listOk \in OutcomesFor(cgmrs[r] /\ ~cgmrReady[r], {TRUE, FALSE}),
       failAt \in OutcomesFor(cgmrs[r] /\ ~cgmrReady[r],
                              {"none"} \cup MembershipsOfPair(cgms, r)),
       goneAt \in OutcomesFor(cgmrs[r] /\ ~cgmrReady[r],
                              {"none"} \cup MembershipsOfPair(cgms, r)),
       writeOk \in OutcomesFor(cgmrs[r] /\ ~cgmrReady[r], BOOLEAN) :
        /\ CGMRReconcile(r, listOk, failAt, goneAt, writeOk)
        /\ UNCHANGED <<emailVars, contacts, groups, cgmrs, providerVars, createLog, inflight>>

DoCreateMembershipRequest ==
    \E m \in CgmIds :
        /\ CreateMembershipRequest(m)
        /\ UNCHANGED <<emailVars, contacts, groups, cgmrs, providerVars, createLog, inflight>>

NextRemoval ==
    \/ DoCGMRReconcile
    \/ DoCreateMembershipRequest
    \/ DoCGMReconcile

SpecRemoval == InitCascade /\ [][NextRemoval]_vars

\* C32: a removal pass that reads Ready as not True deletes the memberships
\* whose contact and contact group references both equal the removal's, and
\* no other; it sets Ready=True only when every Delete succeeded or answered
\* NotFound.  A pass that reads Ready=True deletes nothing, also when a
\* matching membership is in the store.
C32_RemovalDeletesItsPairOnce ==
    [][lastOp'.op = "CGMRReconcile" =>
         LET r == lastOp'.r
             pair == {m \in CgmIds : /\ cgms[m].exists
                                     /\ CgmContact(m) = RemovalContact(r)
                                     /\ CgmGroup(m) = RemovalGroup(r)}
         IN /\ \A m \in CgmIds : cgms'[m] # cgms[m] => m \in pair /\ ~cgmrReady[r]
            /\ cgmrReady[r] => cgms' = cgms /\ cgmrReady' = cgmrReady
            /\ (~cgmrReady[r] /\ cgmrReady'[r]) =>
                   \A m \in pair : \/ ~cgms'[m].exists
                                   \/ cgms'[m].deleting
                                   \/ lastOp'.branch = "removed" /\ m \notin lastOp'.deleted
            /\ lastOp'.branch = "removed" =>
                   \A m \in lastOp'.deleted : ~cgms'[m].exists \/ cgms'[m].deleting
            /\ lastOp'.branch \in {"deleteFailed", "listFailed"} => ~cgmrReady'[r]]_vars

\* a pass over the completed removal found a matching membership in the
\* store, not yet deleting, and left it there
C32_Witness ==
    /\ lastOp.op = "CGMRReconcile"
    /\ lastOp.branch = "skipped"
    /\ cgmrReady[lastOp.r]
    /\ cgms["m1"].exists /\ ~cgms["m1"].deleting

\* a pass deleted the matching membership and completed the removal, next to
\* memberships of the same contact and of the same group that stay
C32_RemovedWitness ==
    /\ lastOp.op = "CGMRReconcile"
    /\ lastOp.branch = "removed"
    /\ lastOp.deleted = {"m1"}
    /\ cgmrReady[lastOp.r]
    /\ cgms["m1"].deleting
    /\ cgms["m2"].exists /\ ~cgms["m2"].deleting
    /\ cgms["m3"].exists /\ ~cgms["m3"].deleting


(***************************************************************************)
(* SpecNamespace: deletion guards next to memberships whose references     *)
(* name another namespace                                                  *)
(***************************************************************************)
\* contact c1 and group g1 with their membership m1 created on the provider;
\* m2 names a contact called like c1, and m3 a group called like g1, each in
\* the namespace of the store or in another one
InitNamespace ==
    /\ InitEmail
    /\ contacts = [c \in ContactIds |-> SettledContact(c)]
    /\ groups = [g \in GroupIds |-> [ReadyGroup(g) EXCEPT !.exists = (g = "g1")]]
    /\ \E contactNs \in Namespaces, groupNs \in Namespaces :
           cgms = [m \in CgmIds |->
                      IF m = "m1" THEN SettledCgm(m)
                      ELSE IF m = "m2"
                      THEN [NewCgm EXCEPT !.finalizer = TRUE, !.contactNs = contactNs]
                      ELSE [NewCgm EXCEPT !.finalizer = TRUE, !.groupNs = groupNs]]
    /\ cgmrs = [r \in RemovalIds |-> TRUE]
    /\ audience = [entries |-> {[id |-> 1, group |-> AudienceID("g1"),
                                 email |-> ContactEmail("c1", 1)]},
                   next |-> 2]
    /\ resendGroups = {AudienceID("g1")}
    /\ loops = [entries |-> {}, next |-> 1, subscribed |-> {}]
    /\ createLog = [i \in CreateIdentities |-> <<>>]
    /\ inflight = NoReads
    /\ cgmrReady = [r \in RemovalIds |-> FALSE]
    /\ lastOp = [op |-> "none"]

NextNamespace ==
    \/ DoDeleteContactRequest
    \/ DoDeleteGroupRequest
    \/ DoContactReconcile
    \/ DoContactGroupReconcile
    \/ DoCGMReconcile

SpecNamespace == InitNamespace /\ [][NextNamespace]_vars

\* the step is an invocation of the deletion guard of Contact c
ContactGuardRan(c) ==
    /\ lastOp'.op = "ContactReconcile"
    /\ lastOp'.c = c
    /\ lastOp'.branch \in {"finalizeWaiting", "finalized"}

\* the step is an invocation of the deletion guard of ContactGroup g
GroupGuardRan(g) ==
    /\ lastOp'.op = "ContactGroupReconcile"
    /\ lastOp'.g = g
    /\ lastOp'.branch \in {"finalizeWaiting", "finalize"}

\* C33: the deletion guard of a Contact (of a ContactGroup) deletes only
\* memberships whose reference names the namespace and the name of the
\* resource; a membership that names the same name in another namespace is
\* left as it is and does not keep the guard waiting
C33_GuardKeepsToItsNamespace ==
    [][/\ \A c \in ContactIds : ContactGuardRan(c) =>
             /\ \A m \in CgmIds :
                    cgms'[m] # cgms[m] =>
                        /\ CgmContact(m) = c
                        /\ cgms[m].contactNs = ContactNamespace(c)
             /\ (\A m \in CgmIds : (cgms'[m].exists /\ CgmContact(m) = c)
                                      => cgms'[m].contactNs # ContactNamespace(c))
                    => lastOp'.branch = "finalized"
       /\ \A g \in GroupIds : GroupGuardRan(g) =>
             /\ \A m \in CgmIds :
                    cgms'[m] # cgms[m] =>
                        /\ CgmGroup(m) = g
                        /\ cgms[m].groupNs = GroupNamespace(g)
             /\ (\A m \in CgmIds : (cgms'[m].exists /\ CgmGroup(m) = g)
                                      => cgms'[m].groupNs # GroupNamespace(g))
                    => lastOp'.branch = "finalize"]_vars

\* the guard of c1 completed and c1 left the store while m2, which names a
\* contact called like c1 in another namespace, is still there untouched
C33_Witness ==
    /\ lastOp.op = "ContactReconcile"
    /\ lastOp.c = "c1"
    /\ lastOp.branch = "finalized"
    /\ lastOp.wrote
    /\ ~cgms["m1"].exists
    /\ cgms["m2"].exists /\ ~cgms["m2"].deleting
    /\ cgms["m2"].contactNs = "other-ns"

\* the guard of g1 completed while m3, which names a group called like g1 in
\* another namespace, is still there untouched
C33_GroupWitness ==
    /\ lastOp.op = "ContactGroupReconcile"
    /\ lastOp.g = "g1"
    /\ lastOp.branch = "finalize"
    /\ lastOp.wrote
    /\ ~groups["g1"].exists
    /\ cgms["m3"].exists /\ ~cgms["m3"].deleting
    /\ cgms["m3"].groupNs = "other-ns"


(***************************************************************************)
(* SpecInterleave: the Email reconciler and the delivery webhook, each     *)
(* split into its read of the Email and its Status().Update                *)
(***************************************************************************)
EmailWriters == {"reconciler", "webhook"}

\* an Email as it was created
FreshEmail(e) ==
    [uid |-> EmailUID(e), name |-> EmailName(e), priority |-> "normal",
     providerID |-> NoID, delivered |-> NoCondition]

NoEmailReads ==
    [w \in EmailWriters |-> [held |-> FALSE, e |-> "e1", obj |-> FreshEmail("e1"),
                             ev |-> "none"]]

EmailStatusUpdateUnconditional(stored, read, computed) ==
    [res |-> "written", obj |-> computed]

\* Client.Status().Update of an Email: the write carries the resourceVersion
\* of the object read and is rejected when the stored object changed since
EmailStatusUpdate(stored, read, computed) ==
    IF stored # read THEN [res |-> "conflict", obj |-> stored]
    ELSE [res |-> "written", obj |-> computed]

\* the writer reads the Email: the reconciler with Client.Get, which is
\* served from a cache that may still hold the Email as it was created; the
\* webhook with the List over the status.providerID index, for an event of a
\* message the provider accepted
EmailRead(w, e, ev, stale) ==
    /\ ~inflight[w].held
    /\ IF w = "reconciler"
       THEN /\ ev = "none"
            /\ inflight' = [inflight EXCEPT ![w] =
                   [held |-> TRUE, e |-> e,
                    obj |-> IF stale THEN FreshEmail(e) ELSE emails[e], ev |-> ev]]
            /\ lastOp' = [op |-> "EmailRead", w |-> w, e |-> e, found |-> TRUE]
            /\ UNCHANGED webhooks
       ELSE /\ ev \in WebhookEventTypes
            /\ ~stale
            /\ resend.ids[IdempotencyKey(emails[e])] # NoID
            /\ webhooks < MaxWebhooks
            /\ webhooks' = webhooks + 1
            /\ LET found == e \in EmailsByProviderID(resend.ids[IdempotencyKey(emails[e])])
               IN /\ inflight' = [inflight EXCEPT ![w] =
                         IF found THEN [held |-> TRUE, e |-> e, obj |-> emails[e], ev |-> ev]
                         ELSE @]
                  /\ lastOp' = [op |-> "EmailRead", w |-> w, e |-> e, found |-> found]
    /\ UNCHANGED <<emails, emailPass, sendCalls, resend, k8sEvents>>

\* the writer finishes its pass over the Email it read: the reconciler sends
\* unless the Email it read was already sent, and records ProviderID and
\* Delivered=Unknown/DeliveryPending; the webhook records the condition of
\* its event and creates the Event
EmailWrite(w, outcome, writeOk) ==
    LET e == inflight[w].e
        read == inflight[w].obj
        key == IdempotencyKey(read)
        id == SendResultID(key, outcome)
        c == GetEmailCondition(inflight[w].ev)
        computed == IF w = "reconciler"
                    THEN [read EXCEPT !.providerID = id, !.delivered = PendingCondition]
                    ELSE [read EXCEPT !.delivered = [status |-> c.status,
                                                     reason |-> c.reason]]
        r == IF ~writeOk THEN [res |-> "failed", obj |-> emails[e]]
             ELSE EmailStatusUpdate(emails[e], read, computed)
        Done(res) == lastOp' = [op |-> "EmailWrite", w |-> w, e |-> e, res |-> res]
    IN /\ inflight[w].held
       /\ inflight' = [inflight EXCEPT ![w] = NoEmailReads[w]]
       /\ IF w = "webhook"
          THEN /\ emails' = [emails EXCEPT ![e] = r.obj]
               /\ k8sEvents' = [k8sEvents EXCEPT ![e] =
                                   IF r.res = "written" THEN @ + 1 ELSE @]
               /\ Done(r.res)
               /\ UNCHANGED <<emailPass, sendCalls, resend>>
          ELSE IF isEmailAlreadySent(read)
          THEN Done("skipped") /\ UNCHANGED <<emails, emailPass, sendCalls, resend, k8sEvents>>
          ELSE /\ SendCallsIssued < MaxSends
               /\ sendCalls' = [sendCalls EXCEPT ![e] = Append(@, [key |-> key, id |-> id])]
               /\ resend' = ProviderAfterSend(key, outcome)
               /\ IF outcome # "ok"
                  THEN /\ emailPass' = [emailPass EXCEPT ![e] = "sendFailed"]
                       /\ Done("sendFailed")
                       /\ UNCHANGED emails
                  ELSE /\ emails' = [emails EXCEPT ![e] = r.obj]
                       /\ emailPass' = [emailPass EXCEPT ![e] =
                                           IF r.res = "written" THEN "done" ELSE "statusFailed"]
                       /\ Done(r.res)
               /\ UNCHANGED k8sEvents
       /\ UNCHANGED webhooks

InitInterleave ==
    /\ InitEmail
    /\ InitCluster
    /\ InitProviders
    /\ createLog = [i \in CreateIdentities |-> <<>>]
    /\ inflight = NoEmailReads
    /\ cgmrReady = [r \in RemovalIds |-> FALSE]
    /\ lastOp = [op |-> "none"]

DoEmailRead ==
    \E w \in EmailWriters, ev \in WebhookEventTypes \cup {"none"}, stale \in BOOLEAN :
        /\ EmailRead(w, "e1", ev, stale)
        /\ UNCHANGED <<clusterVars, providerVars, createLog, cgmrReady>>

DoEmailWrite ==
    \E w \in EmailWriters :
    \E outcome \in OutcomesFor(w = "reconciler", {"ok", "lost", "err"}), writeOk \in BOOLEAN :
        /\ EmailWrite(w, outcome, writeOk)
        /\ UNCHANGED <<clusterVars, providerVars, createLog, cgmrReady>>

NextInterleave ==
    \/ DoEmailRead
    \/ DoEmailWrite

SpecInterleave == InitInterleave /\ [][NextInterleave]_vars

\* the step ends a pass of the Email reconciler
ReconcilerWrote == lastOp'.op = "EmailWrite" /\ lastOp'.w = "reconciler"

\* C34: once the ProviderID of an Email is persisted, no pass of the Email
\* reconciler changes the status of that Email again, whatever the pass read
\* and however its steps interleave with the webhook: a Delivered condition
\* the webhook wrote is replaced by Unknown/DeliveryPending only by the
\* webhook itself
C34_NoReconcileWriteOnceSent ==
    [][\A e \in EmailIds :
          /\ (emails[e].providerID # NoID /\ ReconcilerWrote) => emails'[e] = emails[e]
          /\ (/\ emails[e].delivered.status \in {"True", "False"}
              /\ emails'[e].delivered = PendingCondition)
                 => (lastOp'.op = "EmailWrite" /\ lastOp'.w = "webhook")]_vars

\* a pass that read the Email before its ProviderID was visible sent again
\* and had its status write rejected, the Delivered condition of the webhook
\* staying in place
C34_Witness ==
    /\ lastOp.op = "EmailWrite"
    /\ lastOp.w = "reconciler"
    /\ lastOp.res = "conflict"
    /\ emails[lastOp.e].providerID # NoID
    /\ emails[lastOp.e].delivered.status = "True"


(***************************************************************************)
(* Delivery events in arrival order (SpecCondition)                        *)
(***************************************************************************)
\* the step is a delivery event the handler answered 200 for Email e
EventProcessed(e) ==
    /\ lastOp'.op = "EmailWebhook"
    /\ lastOp'.http = 200
    /\ emails[e].providerID = lastOp'.id

\* C35: the Delivered condition of an Email is that of the event processed
\* last: each processed event replaces the condition by the one of its type,
\* a final condition (True, False) by Unknown/DeliveryPending when a 'sent'
\* arrives late, and the condition is left alone in between
C35_LastEventWins ==
    [][\A e \in EmailIds :
          /\ EventProcessed(e) =>
                emails'[e].delivered =
                    IF lastOp'.type \in {"email.bounced", "email.failed"}
                    THEN [status |-> "False", reason |-> "DeliveryFailed"]
                    ELSE IF lastOp'.type \in {"email.delivered", "email.opened",
                                              "email.clicked", "email.complained"}
                    THEN [status |-> "True", reason |-> "Delivered"]
                    ELSE [status |-> "Unknown", reason |-> "DeliveryPending"]
          /\ (/\ EventProcessed(e)
              /\ lastOp'.type = "email.sent"
              /\ emails[e].delivered.status = "True")
                => emails'[e].delivered = [status |-> "Unknown", reason |-> "DeliveryPending"]
          /\ emails'[e].delivered # emails[e].delivered =>
                /\ lastOp'.op = "EmailWebhook"
                /\ emails[e].providerID = lastOp'.id
                /\ lastOp'.http \in {200, 500}]_vars

\* a 'sent' event processed after two earlier events left the Email at
\* Unknown/DeliveryPending
C35_Witness ==
    /\ lastOp.op = "EmailWebhook"
    /\ lastOp.http = 200
    /\ lastOp.type = "email.sent"
    /\ \E e \in EmailIds :
          /\ emails[e].providerID = lastOp.id
          /\ emails[e].delivered = [status |-> "Unknown", reason |-> "DeliveryPending"]
          /\ k8sEvents[e] >= 2


(***************************************************************************)
(* SpecPending: the contact-lifecycle webhook path over Contacts whose     *)
(* Updated condition may stand with reason UpdatePending                   *)
(***************************************************************************)
\* As InitWebhook, with the Updated condition of each Contact standing with
\* reason Updated or with reason UpdatePending
InitPending ==
    /\ emails = [e \in EmailIds |->
                   [uid |-> EmailUID(e), name |-> EmailName(e), priority |-> "normal",
                    providerID |-> IF e = "e1" THEN 1 ELSE NoID,
                    delivered |-> IF e = "e1" THEN PendingCondition ELSE NoCondition]]
    /\ emailPass = [e \in EmailIds |-> IF e = "e1" THEN "done" ELSE "none"]
    /\ sendCalls = [e \in EmailIds |->
                      IF e = "e1" THEN <<[key |-> EmailUID(e), id |-> 1]>> ELSE <<>>]
    /\ resend = [ids |-> [k \in IdempotencyKeys |-> IF k = EmailUID("e1") THEN 1 ELSE NoID],
                 msgs |-> [k \in IdempotencyKeys |-> IF k = EmailUID("e1") THEN 1 ELSE 0],
                 next |-> 2]
    /\ k8sEvents = [e \in EmailIds |-> 0]
    /\ webhooks = 0
    /\ contacts \in {[c \in ContactIds |-> [SettledContact(c) EXCEPT !.updatePending = p[c]]] :
                        p \in [ContactIds -> BOOLEAN]}
    /\ groups = [g \in GroupIds |-> [ReadyGroup(g) EXCEPT !.exists = (g = "g1")]]
    /\ cgms = [m \in CgmIds |-> SettledCgm(m)]
    /\ cgmrs = [r \in RemovalIds |-> TRUE]
    /\ audience = [entries |-> {[id |-> cgms[m].providerID, group |-> AudienceID("g1"),
                                 email |-> ContactEmail(CgmContact(m), 1)] :
                                   m \in {x \in CgmIds : CgmGroup(x) = "g1"}},
                   next |-> 3]
    /\ resendGroups = {AudienceID("g1")}
    /\ loops = [entries |-> {[id |-> contacts[c].loopsID, userId |-> ContactUID(c)] :
                                 c \in ContactIds},
                next |-> 3,
                subscribed |-> {ContactUID(c) : c \in {x \in ContactIds : isNewsletterContact(x)}}]
    /\ createLog = [i \in CreateIdentities |-> <<>>]
    /\ inflight = NoReads
    /\ cgmrReady = [r \in RemovalIds |-> FALSE]
    /\ lastOp = [op |-> "none"]

SpecPending == InitPending /\ [][NextWebhook]_vars

\* the step is a contact-lifecycle webhook call that wrote the status of c
ContactEventWrote(c) ==
    /\ lastOp'.op = "ContactWebhook"
    /\ contacts'[c] # contacts[c]

\* C36: while the Updated condition of a Contact has reason UpdatePending,
\* every contact-lifecycle event correlated to it (created, updated or
\* deleted) that writes its status sets Updated=True with reason Updated at
\* the generation of the Contact and sets neither the Deleted condition nor
\* the provider Ready condition; an event answered 200 has written it.  The
\* Deleted condition becomes True only by a contact.deleted event that
\* arrives when no update is pending.
C36_PendingUpdateAbsorbsEvents ==
    [][\A c \in ContactIds :
          /\ (/\ lastOp'.op = "ContactWebhook"
              /\ ContactUpdatedReason(contacts[c]) = "UpdatePending"
              /\ lastOp'.id = contacts[c].providerID)
             => /\ contacts'[c].deleted = contacts[c].deleted
                /\ contacts'[c].resendReady = contacts[c].resendReady
                /\ (ContactEventWrote(c) \/ lastOp'.http = 200)
                      => /\ ContactUpdatedReason(contacts'[c]) = "Updated"
                         /\ contacts'[c].updatedGen = contacts[c].generation
          /\ (contacts[c].deleted # "True" /\ contacts'[c].deleted = "True")
             => /\ lastOp'.op = "ContactWebhook"
                /\ lastOp'.type = "contact.deleted"
                /\ lastOp'.id = contacts[c].providerID
                /\ ContactUpdatedReason(contacts[c]) # "UpdatePending"]_vars

\* a contact.deleted event answered 200 for a Contact with a pending update:
\* the update is confirmed and the Deleted condition stays absent
C36_Witness ==
    /\ lastOp.op = "ContactWebhook"
    /\ lastOp.http = 200
    /\ lastOp.id = contacts["c1"].providerID
    /\ lastOp.type = "contact.deleted"
    /\ contacts["c1"].events = 1
    /\ ContactUpdatedReason(contacts["c1"]) = "Updated"
    /\ contacts["c1"].deleted = "Absent"
    /\ contacts["c2"].updatePending

\* a contact.deleted event with no update pending sets Deleted=True
C36_DeletedWitness ==
    /\ lastOp.op = "ContactWebhook"
    /\ lastOp.type = "contact.deleted"
    /\ lastOp.id = contacts["c1"].providerID
    /\ contacts["c1"].deleted = "True"
    /\ contacts["c1"].events = 1


(***************************************************************************)
(* SpecFinalizerFirst: the three guarded controllers over new objects      *)
(***************************************************************************)
NextFinalizerFirst ==
    \/ DoContactGroupReconcile
    \/ DoCGMReconcile
    \/ DoLoopsContactReconcile

SpecFinalizerFirst == InitStatus /\ [][NextFinalizerFirst]_vars

\* the pass of the step, as a record naming the object it read and whether
\* that object held the finalizer of the controller when the pass read it
GuardedPass ==
    IF lastOp'.op = "CGMReconcile"
    THEN [guarded |-> TRUE, held |-> cgms[lastOp'.m].finalizer,
          heldAfter |-> cgms'[lastOp'.m].finalizer]
    ELSE IF lastOp'.op = "ContactGroupReconcile"
    THEN [guarded |-> TRUE, held |-> groups[lastOp'.g].finalizer,
          heldAfter |-> groups'[lastOp'.g].finalizer]
    ELSE IF lastOp'.op = "LoopsContactReconcile"
    THEN [guarded |-> TRUE, held |-> "loops" \in contacts[lastOp'.c].finalizers,
          heldAfter |-> "loops" \in contacts'[lastOp'.c].finalizers]
    ELSE [guarded |-> FALSE, held |-> FALSE, heldAfter |-> FALSE]

\* the objects of the three guarded types that have an entity on the provider
\* but do not hold the finalizer of their controller
UnguardedEntities ==
    {<<"group", g>> : g \in {x \in GroupIds : /\ groups[x].exists
                                             /\ ~groups[x].finalizer
                                             /\ AudienceID(x) \in resendGroups}}
    \cup {<<"contact", c>> : c \in {x \in ContactIds :
                                      /\ contacts[x].exists
                                      /\ "loops" \notin contacts[x].finalizers
                                      /\ \E e \in loops.entries : e.userId = ContactUID(x)}}
    \cup {<<"cgm", m>> : m \in {x \in CgmIds :
                                  /\ cgms[x].exists
                                  /\ ~cgms[x].finalizer
                                  /\ \E e \in audience.entries :
                                        /\ e.group = groups[CgmGroup(x)].providerID
                                        /\ e.email[1] = CgmContact(x)}}

C37_AddedWitness ==
    /\ lastOp.op = "ContactGroupReconcile"
    /\ lastOp.branch = "addFinalizer"
    /\ lastOp.wrote
    /\ groups["g1"].finalizer
    /\ resendGroups = {}


(***************************************************************************)
(* SpecDeleting: new objects whose deletion is requested while the         *)
(* controllers are still bringing them to the providers                    *)
(***************************************************************************)
NextDeleting ==
    \/ DoDeleteContactRequest
    \/ DoContactReconcile
    \/ DoLoopsContactReconcile
    \/ DoCGMReconcile

SpecDeleting == InitStatus /\ [][NextDeleting]_vars

\* the step is a reconcile pass over an object whose deletion was requested
\* before the pass read it
PassOverDeleting ==
    \/ lastOp'.op = "LoopsContactReconcile" /\ contacts[lastOp'.c].exists
                                            /\ contacts[lastOp'.c].deleting
    \/ lastOp'.op = "ContactReconcile" /\ contacts[lastOp'.c].exists
                                       /\ contacts[lastOp'.c].deleting
    \/ lastOp'.op = "CGMReconcile" /\ cgms[lastOp'.m].exists /\ cgms[lastOp'.m].deleting

\* C38: once deletion has been requested for a resource, no reconcile pass of
\* any controller enters the create or the update case for it, and none adds
\* an entity to a provider, also when another controller still holds its own
\* finalizer on the resource after this controller released its own.
C38_NoCreateOnceDeleting ==
    [][PassOverDeleting
          => /\ lastOp'.branch \notin {"create", "update"}
             /\ loops'.entries \subseteq loops.entries
             /\ loops'.subscribed \subseteq loops.subscribed
             /\ audience'.entries \subseteq audience.entries]_vars


(***************************************************************************)
(* SpecTermination: SpecGuard with guard passes that keep being retried.   *)
(* A pass that returned an error is requeued by the work queue, and the    *)
(* store and the provider do not fail forever; the confirmation webhook is *)
(* under no fairness condition and may never be delivered.                 *)
(***************************************************************************)
\* a pass of the guard over m in which the delete call and the store write
\* are answered
GuardPassOk(m) ==
    /\ cgms[m].exists
    /\ cgms[m].deleting
    /\ CGMReconcile(m, "ok", "ok", "ok", TRUE)
    /\ UNCHANGED <<emailVars, contacts, groups, cgmrs, resendGroups, loops, createLog,
                   inflight, cgmrReady>>

SpecTermination ==
    /\ InitCascade
    /\ [][NextGuard]_vars
    /\ \A m \in CgmIds : WF_vars(GuardPassOk(m))

\* C39: deletion of a ContactGroupMembership on the asynchronous provider
\* terminates: when guard passes keep being retried, the referenced
\* ContactGroup exists and the provider answers NotFound to the delete of a
\* membership it no longer holds, a membership whose deletion was requested
\* eventually leaves the store (the guard returned success and the finalizer
\* was released), whether or not the confirmation webhook is delivered.
C39_GuardTerminates ==
    \A m \in CgmIds : (cgms[m].exists /\ cgms[m].deleting) ~> ~cgms[m].exists

\* the guard was released by a re-issued delete answered NotFound while the
\* Deleted condition still said DeletePending: the webhook never arrived
C39_Witness ==
    /\ lastOp.op = "CGMReconcile"
    /\ lastOp.m = "m1"
    /\ lastOp.branch = "finalize"
    /\ lastOp.guard = "success"
    /\ lastOp.calls = <<[call |-> "delete", res |-> "NotFound"]>>
    /\ cgms["m1"].deleted = "DeletePending"
    /\ ~cgms["m1"].exists
    /\ groups["g1"].exists

\* the guard was released after the webhook had set Deleted=True
C39_ConfirmedWitness ==
    /\ lastOp.op = "CGMReconcile"
    /\ lastOp.m = "m1"
    /\ lastOp.guard = "success"
    /\ lastOp.calls = <<>>
    /\ cgms["m1"].deleted = "True"
    /\ ~cgms["m1"].exists


(***************************************************************************)
(* SpecNewsletter: the Loops reconciler over settled Contacts, one of them *)
(* a newsletter contact by its name, the other joining the newsletter      *)
(* group by a new membership                                               *)
(***************************************************************************)
NextNewsletter ==
    \/ DoLoopsContactReconcile
    \/ DoCreateMembershipRequest
    \/ DoContactSpecUpdate

SpecNewsletter == InitCascade /\ [][NextNewsletter]_vars

\* the pass of the step issued the mailing-list subscription call with result res
NewsletterCall(res) ==
    lastOp'.calls = <<[call |-> "updateMailingLists", res |-> res]>>

\* C40: the Loops reconciler issues the newsletter mailing-list subscription
\* call for a Contact only while the NewsLetterAdded condition of the Contact
\* is not True: once the condition is persisted as True no later pass issues
\* the call and the condition stays True; a call that succeeded is recorded
\* as True and a call that failed as False by the status write of the same
\* pass, before the pass returns the error of the call.
C40_NewsletterCallOnlyWhileNotAdded ==
    [][\A c \in ContactIds :
          /\ (lastOp'.op = "LoopsContactReconcile" /\ lastOp'.c = c)
             => /\ contacts[c].newsletter = "True"
                   => /\ lastOp'.calls = <<>>
                      /\ loops'.subscribed = loops.subscribed
                /\ lastOp'.calls # <<>>
                   => /\ NewsletterCall("ok") \/ NewsletterCall("err")
                      /\ contacts[c].newsletter # "True"
                      /\ WantsNewsletter(c)
                /\ (NewsletterCall("err") /\ (lastOp'.wrote \/ ~lastOp'.changed))
                   => contacts'[c].newsletter = "False"
                /\ (NewsletterCall("ok") /\ lastOp'.wrote)
                   => /\ contacts'[c].newsletter = "True"
                      /\ ContactUID(c) \in loops'.subscribed
          /\ contacts[c].newsletter = "True" => contacts'[c].newsletter = "True"]_vars

\* a pass over the contact that joined the newsletter group found the
\* condition True and issued no call
C40_Witness ==
    /\ lastOp.op = "LoopsContactReconcile"
    /\ lastOp.c = "c1"
    /\ lastOp.branch \in {"none", "update"}
    /\ lastOp.calls = <<>>
    /\ cgms["m2"].exists
    /\ contacts["c1"].newsletter = "True"
    /\ ContactUID("c1") \in loops.subscribed

\* a failed call was recorded as NewsLetterAdded=False
C40_FailedWitness ==
    /\ lastOp.op = "LoopsContactReconcile"
    /\ lastOp.c = "c1"
    /\ lastOp.calls = <<[call |-> "updateMailingLists", res |-> "err"]>>
    /\ lastOp.wrote
    /\ contacts["c1"].newsletter = "False"

=============================================================================
